---------------------------- MODULE Spec2Model ----------------------------
(***************************************************************************)
(* Reservation service (servicio_reservas): the availability evaluator     *)
(* get_horario_laboratorio and the booking handlers create_reserva and     *)
(* cancel_reserva, over the rule, exception and booking tables.            *)
(*                                                                         *)
(* Time.  A calendar date is an integer (date 0 is a Monday); a time of    *)
(* day is a tick in 0..TimeMax, where tick 0 is time.min and tick TimeMax  *)
(* is time.max, the last representable instant of the day.  A naive        *)
(* datetime is the integer date * TicksPerDay + tick.                      *)
(***************************************************************************)
EXTENDS Integers, Sequences, FiniteSets, TLC

(* ------------------------------ bounds -------------------------------- *)
TicksPerDay == 3
MaxFecha == 1
MaxReglas == 2
MaxExcepciones == 2
MaxReservas == 2
MaxFechaReserva == 0
MaxInflight == 2

(* --------------------------- program values --------------------------- *)
\* SQL NULL / Python None of a nullable laboratorio_id column
NULL == 0
\* None of a nullable Time column (hora_inicio, hora_fin of an exception)
NoTime == -1
TimeMin == 0
TimeMax == TicksPerDay - 1

Labs == {1, 2}
Fechas == 0..MaxFecha
Horas == TimeMin..TimeMax

VARIABLES
    laboratorios,        \* table laboratorios: ids of the stored facilities
    labs_cache_main,     \* process-wide facility cache loaded at startup
    usuarios,            \* table usuarios of the identity service
    reglas_horario,      \* table reglas_horario, rows in storage order
    excepciones_horario, \* table excepciones_horario, rows in storage order
    reservas,            \* table reservas, rows in storage order; id = index
    tz_local,            \* UTC offset (ticks) of the server's local timezone
    req,                 \* the last request handled
    resp,                \* the response given to it
    reservas_antes,      \* table reservas as it was when that request arrived
    inflight,            \* create_reserva requests between query and commit
    rol,                 \* column rol of table usuarios, by user id
    recursos,            \* table recursos: column estado, by resource id
    prestamos            \* table prestamos, rows in storage order; id = index

vars == <<laboratorios, labs_cache_main, usuarios, reglas_horario,
          excepciones_horario, reservas, tz_local, req, resp, reservas_antes,
          inflight, rol, recursos, prestamos>>

(* ------------------------------ helpers ------------------------------- *)
\* the orders in which a query without ORDER BY may return the rows of a table
Orderings(table) ==
    {[i \in DOMAIN table |-> table[p[i]]] : p \in Permutations(DOMAIN table)}

\* datetime.combine(date, time), a naive datetime
combine(d, t) == d * TicksPerDay + t
\* datetime.date()
date_of(dt) == dt \div TicksPerDay
\* date.weekday(): 0 = Monday .. 6 = Sunday
weekday(d) == d % 7
\* date.isoformat(): the dictionary key of a day
isoformat(d) == <<"iso", d>>

(* ------------------- get_horario_laboratorio -------------------------- *)
\* schemas.SlotHorario(inicio, fin, tipo); inicio and fin are naive datetimes
SlotHorario(inicio, fin, tipo) == [inicio |-> inicio, fin |-> fin, tipo |-> tipo]

\* sorted(reglas, key=lambda r: r.hora_inicio): stable, ties keep their order
RECURSIVE insert_sorted(_, _)
insert_sorted(sorted, r) ==
    IF sorted = <<>> THEN <<r>>
    ELSE IF Head(sorted).hora_inicio <= r.hora_inicio
         THEN <<Head(sorted)>> \o insert_sorted(Tail(sorted), r)
         ELSE <<r>> \o sorted

\* (mutant) the rules left in the order the query returned them
sorted_by_hora_inicio_sin_ordenar(rs) == rs

RECURSIVE sorted_by_hora_inicio(_)
sorted_by_hora_inicio(rs) ==
    IF rs = <<>> THEN <<>>
    ELSE insert_sorted(sorted_by_hora_inicio(SubSeq(rs, 1, Len(rs) - 1)), rs[Len(rs)])

\* tipo of the slot a rule yields
tipo_de_regla(regla) ==
    IF regla.es_habilitado THEN regla.tipo_intervalo ELSE "no_habilitado"

\* one slot per rule, in the order given
slots_de_reglas(current_date, rs) ==
    [i \in DOMAIN rs |->
        SlotHorario(combine(current_date, rs[i].hora_inicio),
                    combine(current_date, rs[i].hora_fin),
                    tipo_de_regla(rs[i]))]

\* (mutant) the general exception preferred over the facility's own
excepcion_a_usar_general_primero(lab_id, excepciones_hoy) ==
    LET especificas == SelectSeq(excepciones_hoy, LAMBDA e : e.laboratorio_id = lab_id)
        generales   == SelectSeq(excepciones_hoy, LAMBDA e : e.laboratorio_id = NULL)
    IN  IF generales # <<>> THEN <<generales[1]>>
        ELSE IF especificas # <<>> THEN <<especificas[1]>>
        ELSE <<>>

\* (mutant) the first exception of the day, whatever its facility
excepcion_a_usar_primera(lab_id, excepciones_hoy) ==
    IF excepciones_hoy # <<>> THEN <<excepciones_hoy[1]>> ELSE <<>>

\* the exception consulted for a day: the first facility-specific one of the
\* query's result, else the first general one; <<>> when there is none
excepcion_a_usar(lab_id, excepciones_hoy) ==
    LET especificas == SelectSeq(excepciones_hoy, LAMBDA e : e.laboratorio_id = lab_id)
        generales   == SelectSeq(excepciones_hoy, LAMBDA e : e.laboratorio_id = NULL)
    IN  IF especificas # <<>> THEN <<especificas[1]>>
        ELSE IF generales # <<>> THEN <<generales[1]>>
        ELSE <<>>

\* (mutant) every disabled exception closes the day, timed or not
es_dia_completo_cerrado_sin_hora(e) == ~e.es_habilitado

\* whether the consulted exception closes the whole day
es_dia_completo_cerrado(e) == ~e.es_habilitado /\ e.hora_inicio = NoTime

\* (mutant) the general rules merged into the facility's own
reglas_a_usar_union(dia_semana, reglas_especificas_q, reglas_generales_q) ==
    SelectSeq(reglas_especificas_q \o reglas_generales_q, LAMBDA r : r.dia_semana = dia_semana)

\* the rule set of a weekday: the facility's own rules if it has any for that
\* weekday, else the general ones
reglas_a_usar(dia_semana, reglas_especificas_q, reglas_generales_q) ==
    LET especificas == SelectSeq(reglas_especificas_q, LAMBDA r : r.dia_semana = dia_semana)
        generales   == SelectSeq(reglas_generales_q, LAMBDA r : r.dia_semana = dia_semana)
    IN  IF especificas # <<>> THEN especificas ELSE generales

\* (mutant) a day without rules reported as available
slots_del_dia_sin_reglas_disponible(lab_id, current_date, reglas_especificas_q, reglas_generales_q, excepciones_q) ==
    LET excepciones_hoy == SelectSeq(excepciones_q, LAMBDA e : e.fecha = current_date)
        exc    == excepcion_a_usar(lab_id, excepciones_hoy)
        reglas == reglas_a_usar(weekday(current_date), reglas_especificas_q, reglas_generales_q)
    IN  IF exc # <<>> /\ es_dia_completo_cerrado(exc[1])
        THEN << SlotHorario(combine(current_date, TimeMin), combine(current_date, TimeMax),
                            IF exc[1].descripcion # "" THEN exc[1].descripcion
                            ELSE "no_habilitado") >>
        ELSE IF reglas = <<>>
        THEN << SlotHorario(combine(current_date, TimeMin), combine(current_date, TimeMax),
                            "disponible") >>
        ELSE slots_de_reglas(current_date, sorted_by_hora_inicio(reglas))

\* the body of the day loop for one date
slots_del_dia(lab_id, current_date, reglas_especificas_q, reglas_generales_q, excepciones_q) ==
    LET excepciones_hoy == SelectSeq(excepciones_q, LAMBDA e : e.fecha = current_date)
        exc    == excepcion_a_usar(lab_id, excepciones_hoy)
        reglas == reglas_a_usar(weekday(current_date), reglas_especificas_q, reglas_generales_q)
    IN  IF exc # <<>> /\ es_dia_completo_cerrado(exc[1])
        THEN << SlotHorario(combine(current_date, TimeMin), combine(current_date, TimeMax),
                            IF exc[1].descripcion # "" THEN exc[1].descripcion
                            ELSE "no_habilitado") >>
        ELSE IF reglas = <<>>
        THEN << SlotHorario(combine(current_date, TimeMin), combine(current_date, TimeMax),
                            "no_habilitado") >>
        ELSE slots_de_reglas(current_date, sorted_by_hora_inicio(reglas))

\* (mutant) the day loop stopping before fecha_fin
RECURSIVE horario_loop_exclusivo(_, _, _, _, _, _, _)
horario_loop_exclusivo(lab_id, current_date, fecha_fin, esp_q, gen_q, exc_q, horario_final) ==
    IF current_date < fecha_fin
    THEN horario_loop_exclusivo(lab_id, current_date + 1, fecha_fin, esp_q, gen_q, exc_q,
                      (isoformat(current_date) :> slots_del_dia(lab_id, current_date, esp_q, gen_q, exc_q))
                          @@ horario_final)
    ELSE horario_final

\* while current_date <= fecha_fin: ... current_date += 1 day
RECURSIVE horario_loop(_, _, _, _, _, _, _)
horario_loop(lab_id, current_date, fecha_fin, esp_q, gen_q, exc_q, horario_final) ==
    IF current_date <= fecha_fin
    THEN horario_loop(lab_id, current_date + 1, fecha_fin, esp_q, gen_q, exc_q,
                      (isoformat(current_date) :> slots_del_dia(lab_id, current_date, esp_q, gen_q, exc_q))
                          @@ horario_final)
    ELSE horario_final

\* (mutant) the schedule computed without looking the facility up
get_horario_laboratorio_sin_lab(lab_id, fecha_inicio, fecha_fin, labs_db, reglas_q, excepciones_q) ==
    LET gen_q == SelectSeq(reglas_q, LAMBDA r : r.laboratorio_id = NULL)
        esp_q == SelectSeq(reglas_q, LAMBDA r : r.laboratorio_id = lab_id)
        exc_q == SelectSeq(excepciones_q,
                           LAMBDA e : /\ e.fecha >= fecha_inicio
                                      /\ e.fecha <= fecha_fin
                                      /\ e.laboratorio_id \in {lab_id, NULL})
    IN  [status |-> 200,
         body   |-> horario_loop(lab_id, fecha_inicio, fecha_fin, esp_q, gen_q, exc_q, <<>>)]

\* GET /laboratorios/{lab_id}/horario.  labs_db is the laboratorios table;
\* reglas_q and excepciones_q are the two tables in the order the queries
\* return their rows.
get_horario_laboratorio(lab_id, fecha_inicio, fecha_fin, labs_db, reglas_q, excepciones_q) ==
    IF lab_id \notin labs_db
    THEN [status |-> 404, body |-> <<>>]
    ELSE LET gen_q == SelectSeq(reglas_q, LAMBDA r : r.laboratorio_id = NULL)
             esp_q == SelectSeq(reglas_q, LAMBDA r : r.laboratorio_id = lab_id)
             exc_q == SelectSeq(excepciones_q,
                                LAMBDA e : /\ e.fecha >= fecha_inicio
                                           /\ e.fecha <= fecha_fin
                                           /\ e.laboratorio_id \in {lab_id, NULL})
         IN  [status |-> 200,
              body   |-> horario_loop(lab_id, fecha_inicio, fecha_fin, esp_q, gen_q, exc_q, <<>>)]

(* ----------------------------- datetimes ------------------------------ *)
\* A request datetime as pydantic parses it: naive (tzinfo "none", wall time t)
\* or aware in UTC (tzinfo "utc").
\* datetime.astimezone(timezone.utc): a naive value is taken as server-local
astimezone_utc(dt) == IF dt.tzinfo = "none" THEN dt.t - tz_local ELSE dt.t

\* slot.inicio == reserva.inicio, the slot's datetime being naive: a naive and
\* an aware datetime never compare equal
naive_eq(slot_dt, dt) == dt.tzinfo = "none" /\ dt.t = slot_dt

(* ----------------------------- responses ------------------------------ *)
\* A response: the status, the error raised ("" for none), the id of the row
\* it names, and what the handler asked of the calendar service while
\* producing it ("none" when it made no call).
NoResp == [status |-> 0, error |-> "", id |-> 0, calendar |-> "none"]
HTTPException(status, error) ==
    [status |-> status, error |-> error, id |-> 0, calendar |-> "none"]
Response(status, id, calendar) ==
    [status |-> status, error |-> "", id |-> id, calendar |-> calendar]
NoReq == [op |-> "none"]

(* --------------------------- create_reserva --------------------------- *)
\* (mutant) a request contained in an available slot is accepted
slot_valido_contenido(slots_disponibles, reserva) ==
    \E i \in DOMAIN slots_disponibles :
        /\ reserva.inicio.tzinfo = "none" /\ reserva.fin.tzinfo = "none"
        /\ slots_disponibles[i].inicio <= reserva.inicio.t
        /\ reserva.fin.t <= slots_disponibles[i].fin
        /\ slots_disponibles[i].tipo = "disponible"

\* for slot in slots_disponibles: exact boundaries and tipo "disponible"
slot_valido_encontrado(slots_disponibles, reserva) ==
    \E i \in DOMAIN slots_disponibles :
        /\ naive_eq(slots_disponibles[i].inicio, reserva.inicio)
        /\ naive_eq(slots_disponibles[i].fin, reserva.fin)
        /\ slots_disponibles[i].tipo = "disponible"

\* (mutant) only a booking that covers the new start counts as a conflict
solapa_solo_inicio(r, laboratorio_id, inicio, fin) ==
    /\ r.laboratorio_id = laboratorio_id
    /\ r.estado # "cancelada"
    /\ r.inicio <= inicio
    /\ r.fin > inicio

\* (mutant) closed intervals: a booking that only touches the range conflicts
solapa_cerrado(r, laboratorio_id, inicio, fin) ==
    /\ r.laboratorio_id = laboratorio_id
    /\ r.estado # "cancelada"
    /\ r.inicio <= fin
    /\ r.fin >= inicio

\* the filter of the overlap query on one stored booking
solapa(r, laboratorio_id, inicio, fin) ==
    /\ r.laboratorio_id = laboratorio_id
    /\ r.estado # "cancelada"
    /\ r.inicio < fin
    /\ r.fin > inicio

\* ids of the rows the overlap query may return with .first()
overlapping(tabla, laboratorio_id, inicio, fin) ==
    {tabla[i].id : i \in {j \in DOMAIN tabla : solapa(tabla[j], laboratorio_id, inicio, fin)}}

\* the same validations in the order range, past, facility, requester, slot
create_reserva_validaciones_rango_primero(caller, reserva, user_details, now, reglas_q, excepciones_q) ==
    LET inicio == astimezone_utc(reserva.inicio)
        fin    == astimezone_utc(reserva.fin)
        horario_dia_dict ==
            get_horario_laboratorio(reserva.laboratorio_id, date_of(inicio), date_of(inicio),
                                    laboratorios, reglas_q, excepciones_q)
        clave == isoformat(date_of(inicio))
        slots_disponibles ==
            IF clave \in DOMAIN horario_dia_dict.body THEN horario_dia_dict.body[clave] ELSE <<>>
    IN  IF caller.rol \notin {"admin", "docente"}
        THEN HTTPException(403, "Forbidden")
        ELSE IF inicio >= fin
        THEN HTTPException(400, "InvalidRange")
        ELSE IF inicio < now
        THEN HTTPException(400, "InPast")
        ELSE IF reserva.laboratorio_id \notin laboratorios
        THEN HTTPException(404, "FacilityNotFound")
        ELSE IF ~user_details
        THEN HTTPException(404, "RequesterNotFound")
        ELSE IF ~slot_valido_encontrado(slots_disponibles, reserva)
        THEN HTTPException(409, "SlotMismatch")
        ELSE NoResp

\* (mutant) the validations without the requester's lookup
create_reserva_validaciones_sin_usuario(caller, reserva, user_details, now, reglas_q, excepciones_q) ==
    LET inicio == astimezone_utc(reserva.inicio)
        fin    == astimezone_utc(reserva.fin)
        horario_dia_dict ==
            get_horario_laboratorio(reserva.laboratorio_id, date_of(inicio), date_of(inicio),
                                    laboratorios, reglas_q, excepciones_q)
        clave == isoformat(date_of(inicio))
        slots_disponibles ==
            IF clave \in DOMAIN horario_dia_dict.body THEN horario_dia_dict.body[clave] ELSE <<>>
    IN  IF caller.rol \notin {"admin", "docente"}
        THEN HTTPException(403, "Forbidden")
        ELSE IF reserva.laboratorio_id \notin (labs_cache_main \cup laboratorios)
        THEN HTTPException(404, "FacilityNotFound")
        ELSE IF inicio >= fin
        THEN HTTPException(400, "InvalidRange")
        ELSE IF inicio < now
        THEN HTTPException(400, "InPast")
        ELSE IF horario_dia_dict.status = 404
        THEN HTTPException(404, "FacilityNotFound")
        ELSE IF ~slot_valido_encontrado(slots_disponibles, reserva)
        THEN HTTPException(409, "SlotMismatch")
        ELSE NoResp

\* The validations of create_reserva up to and including the schedule check,
\* in the order of the code: the error raised, or NoResp when all pass.
create_reserva_validaciones(caller, reserva, user_details, now, reglas_q, excepciones_q) ==
    LET inicio == astimezone_utc(reserva.inicio)
        fin    == astimezone_utc(reserva.fin)
        horario_dia_dict ==
            get_horario_laboratorio(reserva.laboratorio_id, date_of(inicio), date_of(inicio),
                                    laboratorios, reglas_q, excepciones_q)
        clave == isoformat(date_of(inicio))
        slots_disponibles ==
            IF clave \in DOMAIN horario_dia_dict.body THEN horario_dia_dict.body[clave] ELSE <<>>
    IN  IF caller.rol \notin {"admin", "docente"}
        THEN HTTPException(403, "Forbidden")
        ELSE IF reserva.laboratorio_id \notin (labs_cache_main \cup laboratorios)
        THEN HTTPException(404, "FacilityNotFound")
        ELSE IF ~user_details
        THEN HTTPException(404, "RequesterNotFound")
        ELSE IF inicio >= fin
        THEN HTTPException(400, "InvalidRange")
        ELSE IF inicio < now
        THEN HTTPException(400, "InPast")
        ELSE IF horario_dia_dict.status = 404
        THEN HTTPException(404, "FacilityNotFound")
        ELSE IF ~slot_valido_encontrado(slots_disponibles, reserva)
        THEN HTTPException(409, "SlotMismatch")
        ELSE NoResp

\* the greatest id of the table's rows, 0 for an empty table
MaxId(tabla) ==
    IF tabla = <<>> THEN 0
    ELSE CHOOSE m \in {tabla[i].id : i \in DOMAIN tabla} :
            \A i \in DOMAIN tabla : tabla[i].id <= m

\* the position of the row with primary key id (db.get finds it)
fila(tabla, id) == CHOOSE i \in DOMAIN tabla : tabla[i].id = id

\* (mutant) a booking created in another status
new_reserva_pendiente(tabla, reserva) ==
    [id             |-> MaxId(tabla) + 1,
     usuario_id     |-> reserva.usuario_id,
     laboratorio_id |-> reserva.laboratorio_id,
     inicio         |-> astimezone_utc(reserva.inicio),
     fin            |-> astimezone_utc(reserva.fin),
     estado         |-> "pendiente",
     google_event_id |-> ""]

\* models.Reserva(..., estado="activa", google_event_id=None); the primary key
\* is generated by the database: the next one after the greatest in the table
new_reserva(tabla, reserva) ==
    [id             |-> MaxId(tabla) + 1,
     usuario_id     |-> reserva.usuario_id,
     laboratorio_id |-> reserva.laboratorio_id,
     inicio         |-> astimezone_utc(reserva.inicio),
     fin            |-> astimezone_utc(reserva.fin),
     estado         |-> "activa",
     google_event_id |-> ""]

\* (mutant) the booking is kept only when the calendar event was created
insert_reserva_si_evento(tabla, reserva, calendar) ==
    IF calendar = "event"
    THEN Append(tabla, [new_reserva(tabla, reserva) EXCEPT !.google_event_id = "evt"])
    ELSE tabla

\* db.add(new_reserva); db.commit(), then the calendar event: its id is stored
\* when create_calendar_event returns one ("event"); a failure is only logged
insert_reserva(tabla, reserva, calendar) ==
    LET nueva == new_reserva(tabla, reserva)
    IN  Append(tabla, IF calendar = "event"
                      THEN [nueva EXCEPT !.google_event_id = "evt"]
                      ELSE nueva)

(* --------------------------- cancel_reserva --------------------------- *)
\* (mutant) the checks of cancel_reserva without the caller's check
cancel_reserva_validaciones_sin_rol(tabla, reserva_id, user) ==
    IF \A i \in DOMAIN tabla : tabla[i].id # reserva_id
    THEN HTTPException(404, "NotFound")
    ELSE IF tabla[fila(tabla, reserva_id)].estado = "cancelada"
    THEN HTTPException(409, "AlreadyCancelled")
    ELSE NoResp

\* (mutant) the checks of cancel_reserva without the status check
cancel_reserva_validaciones_sin_estado(tabla, reserva_id, user) ==
    IF \A i \in DOMAIN tabla : tabla[i].id # reserva_id
    THEN HTTPException(404, "NotFound")
    ELSE IF user.rol # "admin" /\ tabla[fila(tabla, reserva_id)].usuario_id # user.id
    THEN HTTPException(403, "Forbidden")
    ELSE NoResp

\* the checks of cancel_reserva: the error raised, or NoResp when all pass
cancel_reserva_validaciones(tabla, reserva_id, user) ==
    IF \A i \in DOMAIN tabla : tabla[i].id # reserva_id
    THEN HTTPException(404, "NotFound")
    ELSE IF user.rol # "admin" /\ tabla[fila(tabla, reserva_id)].usuario_id # user.id
    THEN HTTPException(403, "Forbidden")
    ELSE IF tabla[fila(tabla, reserva_id)].estado = "cancelada"
    THEN HTTPException(409, "AlreadyCancelled")
    ELSE NoResp

\* reserva.estado = "cancelada"; db.commit(); then the calendar event, if one
\* was recorded, is deleted and its id cleared unless the deletion fails
cancelar(tabla, reserva_id, calendar) ==
    [tabla EXCEPT ![fila(tabla, reserva_id)] =
        [@ EXCEPT !.estado = "cancelada",
                  !.google_event_id = IF @ # "" /\ calendar = "deleted" THEN "" ELSE @]]

(* ------------------------- delete_laboratorio ------------------------- *)
\* GET /reservas/{lab_id}/count: active bookings of the lab that end after now
get_reservas_count_for_lab(tabla, lab_id, now) ==
    Cardinality({i \in DOMAIN tabla : /\ tabla[i].laboratorio_id = lab_id
                                      /\ tabla[i].estado \in {"activa"}
                                      /\ tabla[i].fin > now})

\* _get_reservas_count_from_api: the count, 0 on a non-200 answer, -1 when the
\* reservation service cannot be reached
get_reservas_count_from_api(tabla, lab_id, now, answer) ==
    CASE answer = "200"     -> get_reservas_count_for_lab(tabla, lab_id, now)
      [] answer = "non200"  -> 0
      [] answer = "unreachable" -> -1

(* ------------------------------ inputs -------------------------------- *)
Callers == {[id |-> 1, rol |-> "docente"],
            [id |-> 2, rol |-> "estudiante"],
            [id |-> 3, rol |-> "admin"]}
\* callers of POST /reservas: "admin" and "docente" pass the same role test
CreateCallers == {c \in Callers : c.rol # "admin"}
Usuarios == {1, 2, 3}
\* requested facilities and requesters: the stored ones and an unknown id
LabIds == Labs \cup {3}
UsuarioIds == {1, 4}
ReqInstantes == 0..(TicksPerDay * (MaxFechaReserva + 1) - 1)
Nows == {0, 1}
TzOffsets == {0, -1}
Datetimes(tzinfo) == [tzinfo : {tzinfo}, t : ReqInstantes]
ReservaCreates ==
    UNION {[usuario_id : UsuarioIds, laboratorio_id : LabIds,
            inicio : Datetimes(tz), fin : Datetimes(tz)] : tz \in {"none", "utc"}}

\* rows the admin endpoints accept: create_regla_horario checks 0 <= dia <= 6
\* and hora_inicio < hora_fin
ReglaRows(labs, dias, tipos) ==
    {r \in [laboratorio_id : labs, dia_semana : dias, hora_inicio : Horas,
            hora_fin : Horas, es_habilitado : BOOLEAN, tipo_intervalo : tipos] :
        r.hora_inicio < r.hora_fin}

\* create_excepcion_horario: both hours or neither, and inicio < fin
ExcepcionRows(labs, fechas, horas, descripciones) ==
    {e \in [laboratorio_id : labs, fecha : fechas, hora_inicio : horas \cup {NoTime},
            hora_fin : horas \cup {NoTime}, es_habilitado : BOOLEAN,
            descripcion : descripciones] :
        \/ e.hora_inicio = NoTime /\ e.hora_fin = NoTime
        \/ e.hora_inicio # NoTime /\ e.hora_fin # NoTime /\ e.hora_inicio < e.hora_fin}

\* a set as a sequence, in some fixed order
RECURSIVE SetToSeq(_)
SetToSeq(S) ==
    IF S = {} THEN <<>>
    ELSE LET x == CHOOSE y \in S : TRUE IN <<x>> \o SetToSeq(S \ {x})

\* the tables of at most n rows over the rows rs[k..], one storage order per
\* multiset of rows (the order a query returns them in is chosen separately)
RECURSIVE TablesFrom(_, _, _)
TablesFrom(rs, k, n) ==
    IF n = 0 \/ k > Len(rs) THEN {<<>>}
    ELSE TablesFrom(rs, k + 1, n) \cup {<<rs[k]>> \o t : t \in TablesFrom(rs, k, n - 1)}

Tables(rows, n) == TablesFrom(SetToSeq(rows), 1, n)

\* the stored role of the users and the state of the resources at the start
RolInicial == [u \in Usuarios |-> (CHOOSE c \in Callers : c.id = u).rol]
Recursos == {1, 2}
RecursosIniciales == [r \in Recursos |-> "disponible"]

(* -------------------- the booking state machine ----------------------- *)
ReglasReserva == ReglaRows({NULL, 1}, {0}, {"disponible"})
\* whole-day exceptions only: one with hours never changes a day's slots
ExcepcionesReserva ==
    {e \in ExcepcionRows({NULL, 1}, {0}, {}, {"", "disponible"}) :
        e.es_habilitado => e.descripcion = ""}

Init ==
    /\ laboratorios = Labs
    /\ labs_cache_main = Labs
    /\ usuarios = Usuarios
    /\ reglas_horario \in Tables(ReglasReserva, MaxReglas)
    /\ excepciones_horario \in Tables(ExcepcionesReserva, 1)
    /\ reservas = <<>>
    /\ tz_local \in TzOffsets
    /\ req = NoReq
    /\ resp = NoResp
    /\ reservas_antes = <<>>
    /\ inflight = <<>>
    /\ rol = RolInicial
    /\ recursos = RecursosIniciales
    /\ prestamos = <<>>

\* POST /reservas handled to completion
create_reserva ==
    /\ req = NoReq
    /\ MaxId(reservas) < MaxReservas
    /\ \E caller \in CreateCallers, reserva \in ReservaCreates, now \in Nows :
       \E identity_up \in {b \in BOOLEAN : b \/ reserva.usuario_id \in usuarios},
          reglas_q \in Orderings(reglas_horario),
          excepciones_q \in Orderings(excepciones_horario) :
        LET user_details == identity_up /\ reserva.usuario_id \in usuarios
            error == create_reserva_validaciones(caller, reserva, user_details, now,
                                                 reglas_q, excepciones_q)
            conflictos == overlapping(reservas, reserva.laboratorio_id,
                                      astimezone_utc(reserva.inicio),
                                      astimezone_utc(reserva.fin))
        IN  /\ req' = [op |-> "create_reserva", caller |-> caller, reserva |-> reserva,
                       now |-> now, user_details |-> user_details]
            /\ reservas_antes' = reservas
            /\ IF error # NoResp
               THEN resp' = error /\ UNCHANGED reservas
               ELSE IF conflictos # {}
               THEN /\ \E c \in conflictos : resp' = [HTTPException(409, "Overlap") EXCEPT !.id = c]
                    /\ UNCHANGED reservas
               ELSE \E calendar \in {"event", "failed"} :
                    /\ reservas' = insert_reserva(reservas, reserva, calendar)
                    /\ resp' = IF reserva.usuario_id \in usuarios
                               THEN Response(201, MaxId(reservas) + 1, "create_" \o calendar)
                               ELSE [HTTPException(400, "Error al crear reserva local")
                                        EXCEPT !.calendar = "create_" \o calendar]
    /\ UNCHANGED <<laboratorios, labs_cache_main, usuarios, reglas_horario,
                   excepciones_horario, tz_local, inflight>>
    /\ UNCHANGED <<rol, recursos, prestamos>>

\* PUT /reservas/{reserva_id}/cancelar
cancel_reserva ==
    /\ req = NoReq
    /\ \E reserva_id \in 1..MaxReservas, user \in Callers :
        LET error == cancel_reserva_validaciones(reservas, reserva_id, user)
        IN  /\ req' = [op |-> "cancel_reserva", caller |-> user, reserva_id |-> reserva_id]
            /\ reservas_antes' = reservas
            /\ IF error # NoResp
               THEN resp' = error /\ UNCHANGED reservas
               ELSE \E calendar \in {"deleted", "failed"} :
                    LET reserva == reservas[fila(reservas, reserva_id)]
                        llamada == IF reserva.google_event_id = "" THEN "none"
                                   ELSE "delete_" \o calendar
                    IN  /\ reservas' = cancelar(reservas, reserva_id, calendar)
                        /\ resp' = IF reserva.usuario_id \in usuarios
                                   THEN Response(200, reserva_id, llamada)
                                   ELSE [HTTPException(500, "Error al cancelar reserva local")
                                            EXCEPT !.calendar = llamada]
    /\ UNCHANGED <<laboratorios, labs_cache_main, usuarios, reglas_horario,
                   excepciones_horario, tz_local, inflight>>
    /\ UNCHANGED <<rol, recursos, prestamos>>

\* DELETE /laboratorios/{lab_id} of the inventory service.  The commit fails
\* (500) when the bookings table lives in the same database and a booking row
\* still references the facility (ondelete RESTRICT), and a delete that goes
\* through takes the facility's rules and exceptions with it (ondelete
\* CASCADE); without enforced foreign keys nothing refuses the delete and
\* only the facility row goes.
delete_laboratorio ==
    /\ req = NoReq
    /\ \E lab_id \in LabIds, now \in Nows, answer \in {"200", "non200", "unreachable"},
          recursos_count \in {0, 1}, fk_enforced \in BOOLEAN :
        LET reservas_count == get_reservas_count_from_api(reservas, lab_id, now, answer)
            referenced == \E i \in DOMAIN reservas : reservas[i].laboratorio_id = lab_id
            tablas == <<laboratorios, reglas_horario, excepciones_horario>>
        IN  /\ req' = [op |-> "delete_laboratorio", lab_id |-> lab_id, now |-> now]
            /\ reservas_antes' = reservas
            /\ IF lab_id \notin laboratorios
               THEN resp' = HTTPException(404, "FacilityNotFound") /\ UNCHANGED tablas
               ELSE IF recursos_count > 0
               THEN resp' = HTTPException(409, "HasRecursos") /\ UNCHANGED tablas
               ELSE IF reservas_count = -1
               THEN resp' = HTTPException(503, "Unavailable") /\ UNCHANGED tablas
               ELSE IF reservas_count > 0
               THEN resp' = HTTPException(409, "HasReservas") /\ UNCHANGED tablas
               ELSE IF fk_enforced /\ referenced
               THEN resp' = HTTPException(500, "Error") /\ UNCHANGED tablas
               ELSE /\ laboratorios' = laboratorios \ {lab_id}
                    /\ reglas_horario' =
                         IF fk_enforced
                         THEN SelectSeq(reglas_horario, LAMBDA r : r.laboratorio_id # lab_id)
                         ELSE reglas_horario
                    /\ excepciones_horario' =
                         IF fk_enforced
                         THEN SelectSeq(excepciones_horario, LAMBDA e : e.laboratorio_id # lab_id)
                         ELSE excepciones_horario
                    /\ resp' = Response(204, lab_id, "none")
    /\ UNCHANGED <<labs_cache_main, usuarios, reservas, tz_local, inflight>>
    /\ UNCHANGED <<rol, recursos, prestamos>>

\* DELETE /usuarios/{user_id} of the user service, called by an admin.  In a
\* shared database that enforces foreign keys the delete is refused (409) while
\* a loan references the user (ondelete RESTRICT) and otherwise removes the
\* user's bookings with the user (reservas.usuario_id, ondelete CASCADE);
\* without enforcement only the user row goes.
delete_user ==
    /\ req = NoReq
    /\ \E user \in {c \in Callers : c.rol = "admin" /\ c.id \in usuarios},
          user_id \in Usuarios \cup UsuarioIds, fk_enforced \in BOOLEAN,
          con_prestamos \in BOOLEAN :
        /\ req' = [op |-> "delete_user", caller |-> user, user_id |-> user_id]
        /\ reservas_antes' = reservas
        /\ IF user_id = user.id
           THEN resp' = HTTPException(403, "Forbidden") /\ UNCHANGED <<usuarios, reservas>>
           ELSE IF user_id \notin usuarios
           THEN resp' = HTTPException(404, "NotFound") /\ UNCHANGED <<usuarios, reservas>>
           ELSE IF fk_enforced /\ con_prestamos
           THEN resp' = HTTPException(409, "HasData") /\ UNCHANGED <<usuarios, reservas>>
           ELSE /\ usuarios' = usuarios \ {user_id}
                /\ reservas' = IF fk_enforced
                               THEN SelectSeq(reservas, LAMBDA r : r.usuario_id # user_id)
                               ELSE reservas
                /\ resp' = Response(204, user_id, "none")
    /\ UNCHANGED <<laboratorios, labs_cache_main, reglas_horario, excepciones_horario,
                   tz_local, inflight>>
    /\ rol' = [u \in usuarios' |-> rol[u]]
    /\ UNCHANGED <<recursos, prestamos>>

\* the response is returned and the next request is taken
request_done ==
    /\ req # NoReq
    /\ inflight = <<>>
    /\ req' = NoReq
    /\ resp' = NoResp
    /\ reservas_antes' = <<>>
    /\ UNCHANGED <<laboratorios, labs_cache_main, usuarios, reglas_horario,
                   excepciones_horario, reservas, tz_local, inflight>>
    /\ UNCHANGED <<rol, recursos, prestamos>>

Next == create_reserva \/ cancel_reserva \/ request_done

Spec == Init /\ [][Next]_vars

(* ------------------- the availability evaluator ----------------------- *)
ReglasHorario ==
    {r \in ReglaRows({NULL, 1}, {0, 1}, {"disponible", "mantenimiento"}) :
        ~r.es_habilitado => r.tipo_intervalo = "disponible"}
ExcepcionesHorario ==
    {e \in ExcepcionRows({NULL, 1}, Fechas, {0, 1}, {"", "Feriado"}) :
        /\ (e.es_habilitado \/ e.hora_inicio # NoTime) => e.descripcion = ""
        /\ e.hora_inicio # NoTime => ~e.es_habilitado}

InitHorario ==
    /\ laboratorios = Labs
    /\ labs_cache_main = Labs
    /\ usuarios = Usuarios
    /\ reglas_horario \in Tables(ReglasHorario, MaxReglas)
    /\ excepciones_horario \in Tables(ExcepcionesHorario, MaxExcepciones)
    /\ reservas = <<>>
    /\ tz_local = 0
    /\ req = NoReq
    /\ resp = NoResp
    /\ reservas_antes = <<>>
    /\ inflight = <<>>
    /\ rol = RolInicial
    /\ recursos = RecursosIniciales
    /\ prestamos = <<>>

\* GET /laboratorios/{lab_id}/horario
horario_laboratorio ==
    /\ req = NoReq
    /\ \E lab_id \in LabIds, fecha_inicio \in Fechas, fecha_fin \in Fechas :
       \E reglas_q \in Orderings(reglas_horario),
          excepciones_q \in Orderings(excepciones_horario) :
        /\ req' = [op |-> "get_horario_laboratorio", lab_id |-> lab_id,
                   fecha_inicio |-> fecha_inicio, fecha_fin |-> fecha_fin,
                   reglas_q |-> reglas_q, excepciones_q |-> excepciones_q]
        /\ resp' = get_horario_laboratorio(lab_id, fecha_inicio, fecha_fin,
                                           laboratorios, reglas_q, excepciones_q)
    /\ UNCHANGED <<laboratorios, labs_cache_main, usuarios, reglas_horario,
                   excepciones_horario, reservas, tz_local, reservas_antes, inflight>>
    /\ UNCHANGED <<rol, recursos, prestamos>>

NextHorario == horario_laboratorio \/ request_done

SpecHorario == InitHorario /\ [][NextHorario]_vars

(* ============================ claims ================================== *)
IsHorario == req.op = "get_horario_laboratorio" /\ resp.status = 200
RangoPedido == req.fecha_inicio..req.fecha_fin
DiaCompleto(d, tipo) == SlotHorario(combine(d, TimeMin), combine(d, TimeMax), tipo)
Aplica(e, d) == e.fecha = d /\ e.laboratorio_id \in {req.lab_id, NULL}
CierraDia(e) == ~e.es_habilitado /\ e.hora_inicio = NoTime /\ e.hora_fin = NoTime

\* the exceptions of date d in the order the query returned them: the
\* facility's own, and the general ones
PropiasDe(d) ==
    SelectSeq(req.excepciones_q, LAMBDA e : e.fecha = d /\ e.laboratorio_id = req.lab_id)
GeneralesDe(d) ==
    SelectSeq(req.excepciones_q, LAMBDA e : e.fecha = d /\ e.laboratorio_id = NULL)
\* the exception that decides date d, as a sequence of length 0 or 1
Decide(d) ==
    IF PropiasDe(d) # <<>> THEN <<PropiasDe(d)[1]>>
    ELSE IF GeneralesDe(d) # <<>> THEN <<GeneralesDe(d)[1]>>
    ELSE <<>>

\* C7 (as stated): for every date of the range for which a whole-day disabled
\* exception applying to the facility exists, the schedule holds exactly one
\* slot, covering the full day and not labelled "disponible", whatever rules
\* and other exceptions exist.
C7_Original ==
    IsHorario =>
        \A d \in RangoPedido :
            (\E i \in DOMAIN excepciones_horario :
                Aplica(excepciones_horario[i], d) /\ CierraDia(excepciones_horario[i]))
            => /\ Len(resp.body[isoformat(d)]) = 1
               /\ resp.body[isoformat(d)][1].inicio = combine(d, TimeMin)
               /\ resp.body[isoformat(d)][1].fin = combine(d, TimeMax)
               /\ resp.body[isoformat(d)][1].tipo # "disponible"

\* C7 (amended): for every date of the range whose deciding exception (the
\* first facility-specific one the query returns, else the first general one)
\* is whole-day disabled, the schedule holds exactly one slot covering the full
\* day, labelled with the exception's description, or "no_habilitado" when the
\* description is empty, whatever weekly rules exist.
C7_Amended ==
    IsHorario =>
        \A d \in RangoPedido :
            (Decide(d) # <<>> /\ CierraDia(Decide(d)[1]))
            => resp.body[isoformat(d)] =
                   <<DiaCompleto(d, IF Decide(d)[1].descripcion # ""
                                    THEN Decide(d)[1].descripcion
                                    ELSE "no_habilitado")>>

\* a day closed by the facility's own exception although a rule for that
\* weekday and a general exception that does not close the day exist
C7_Witness ==
    /\ IsHorario
    /\ \E d \in RangoPedido :
        /\ PropiasDe(d) # <<>> /\ CierraDia(PropiasDe(d)[1])
        /\ GeneralesDe(d) # <<>> /\ ~CierraDia(GeneralesDe(d)[1])
        /\ \E i \in DOMAIN reglas_horario :
              /\ reglas_horario[i].dia_semana = weekday(d)
              /\ reglas_horario[i].laboratorio_id = req.lab_id
        /\ Len(resp.body[isoformat(d)]) = 1

\* the facility's own rules of the weekday of d, and the general ones
ReglasPropias(d) ==
    {i \in DOMAIN reglas_horario :
        /\ reglas_horario[i].laboratorio_id = req.lab_id
        /\ reglas_horario[i].dia_semana = weekday(d)}
ReglasGenerales(d) ==
    {i \in DOMAIN reglas_horario :
        /\ reglas_horario[i].laboratorio_id = NULL
        /\ reglas_horario[i].dia_semana = weekday(d)}
SlotDeRegla(slot, r, d) ==
    /\ slot.inicio = combine(d, r.hora_inicio)
    /\ slot.fin = combine(d, r.hora_fin)
    /\ slot.tipo = (IF r.es_habilitado THEN r.tipo_intervalo ELSE "no_habilitado")

\* C9: for every day of the range whose weekday has a facility-specific rule,
\* the day's slots are either the single slot of a day closed by an exception
\* or exactly one slot per facility-specific rule: no slot comes from a
\* general rule.
C9_NoMerge ==
    IsHorario =>
        \A d \in RangoPedido :
            ReglasPropias(d) # {} =>
                LET slots == resp.body[isoformat(d)]
                IN  \/ /\ Decide(d) # <<>> /\ CierraDia(Decide(d)[1])
                       /\ Len(slots) = 1
                    \/ /\ Len(slots) = Cardinality(ReglasPropias(d))
                       /\ \A k \in DOMAIN slots :
                            \E i \in ReglasPropias(d) :
                                SlotDeRegla(slots[k], reglas_horario[i], d)

\* a day with a rule of the facility and a different general rule for the same
\* weekday, not closed by an exception
C9_Witness ==
    /\ IsHorario
    /\ \E d \in RangoPedido :
        /\ ReglasPropias(d) # {} /\ ReglasGenerales(d) # {}
        /\ Decide(d) = <<>>
        /\ \E g \in ReglasGenerales(d) :
              \A k \in DOMAIN resp.body[isoformat(d)] :
                  ~SlotDeRegla(resp.body[isoformat(d)][k], reglas_horario[g], d)

\* the exceptions that may decide a day: the facility's own, and a general one
\* only on a date for which the facility has none
PuedeDecidir(e) ==
    \/ e.laboratorio_id = req.lab_id
    \/ /\ e.laboratorio_id = NULL
       /\ \A i \in DOMAIN req.excepciones_q :
            ~(/\ req.excepciones_q[i].fecha = e.fecha
              /\ req.excepciones_q[i].laboratorio_id = req.lab_id)

\* C10: the schedule is the one computed without the general exceptions of the
\* dates for which the facility has an exception of its own and without the
\* exceptions of other facilities.
C10_Precedence ==
    IsHorario =>
        resp.body =
            get_horario_laboratorio(req.lab_id, req.fecha_inicio, req.fecha_fin,
                                    laboratorios, req.reglas_q,
                                    SelectSeq(req.excepciones_q, PuedeDecidir)).body

\* a date with a general exception that closes the day and an exception of the
\* facility that does not: the day is not closed
C10_Witness ==
    /\ IsHorario
    /\ \E d \in RangoPedido :
        /\ PropiasDe(d) # <<>> /\ ~CierraDia(PropiasDe(d)[1])
        /\ GeneralesDe(d) # <<>> /\ CierraDia(GeneralesDe(d)[1])
        /\ ReglasPropias(d) # {}
        /\ \A k \in DOMAIN resp.body[isoformat(d)] :
              \E i \in ReglasPropias(d) :
                  SlotDeRegla(resp.body[isoformat(d)][k], reglas_horario[i], d)
        /\ \A k \in DOMAIN resp.body[isoformat(d)] :
              \E i \in ReglasPropias(d) :
                  SlotDeRegla(resp.body[isoformat(d)][k], reglas_horario[i], d)

(* ------------------------- booking claims ----------------------------- *)
IsCreate == req.op = "create_reserva"
Creada == IsCreate /\ resp.status = 201
\* the requested range as the handler normalises it
InicioUtc == astimezone_utc(req.reserva.inicio)
FinUtc == astimezone_utc(req.reserva.fin)
Activa(r) == r.estado # "cancelada"
SeSolapan(a, b) == a.inicio < b.fin /\ b.inicio < a.fin

\* C1: no two bookings of one facility that are not cancelled have
\* overlapping half-open intervals [inicio, fin).
C1_NoOverlap ==
    \A i, j \in DOMAIN reservas :
        (/\ i < j
         /\ reservas[i].laboratorio_id = reservas[j].laboratorio_id
         /\ Activa(reservas[i]) /\ Activa(reservas[j]))
        => ~SeSolapan(reservas[i], reservas[j])

\* two active bookings of one facility that touch without overlapping
C1_Witness ==
    /\ Len(reservas) = 2
    /\ reservas[1].laboratorio_id = reservas[2].laboratorio_id
    /\ Activa(reservas[1]) /\ Activa(reservas[2])
    /\ reservas[1].fin = reservas[2].inicio

\* the slots the schedule of the requested start's day may hold (one list per
\* order in which the queries may return the rows)
SlotsDelDiaPedido ==
    LET d == date_of(InicioUtc)
    IN  {h.body[isoformat(d)] :
            h \in {get_horario_laboratorio(req.reserva.laboratorio_id, d, d, laboratorios,
                                           rq, eq) :
                      rq \in Orderings(reglas_horario),
                      eq \in Orderings(excepciones_horario)}}
\* slot.inicio == inicio and slot.fin == fin for the values as requested
SlotExacto(slot) ==
    /\ req.reserva.inicio.tzinfo = "none" /\ slot.inicio = req.reserva.inicio.t
    /\ req.reserva.fin.tzinfo = "none" /\ slot.fin = req.reserva.fin.t
    /\ slot.tipo = "disponible"
HaySlotExacto ==
    /\ req.reserva.laboratorio_id \in laboratorios
    /\ \E slots \in SlotsDelDiaPedido : \E k \in DOMAIN slots : SlotExacto(slots[k])
\* the request lies inside an available slot of the day without equalling it
DentroDeSlot ==
    /\ req.reserva.laboratorio_id \in laboratorios
    /\ \E slots \in SlotsDelDiaPedido : \E k \in DOMAIN slots :
        /\ slots[k].tipo = "disponible"
        /\ req.reserva.inicio.tzinfo = "none"
        /\ slots[k].inicio <= req.reserva.inicio.t
        /\ req.reserva.fin.t <= slots[k].fin
        /\ req.reserva.inicio.t < req.reserva.fin.t
        /\ ~SlotExacto(slots[k])
ErroresPrevios == {"Forbidden", "FacilityNotFound", "RequesterNotFound",
                   "InvalidRange", "InPast"}

\* C3: create_reserva succeeds only if the schedule of the requested start's
\* day holds a slot with exactly the requested boundaries and tipo
\* "disponible"; a request that passes the earlier checks without such a slot
\* is answered 409 SlotMismatch and the booking table is unchanged.
C3_ExactSlot ==
    IsCreate =>
        /\ resp.status = 201 => HaySlotExacto
        /\ (~HaySlotExacto /\ resp.error \notin ErroresPrevios)
           => /\ resp.status = 409 /\ resp.error = "SlotMismatch"
              /\ reservas = reservas_antes

\* a request strictly inside an available slot, refused with SlotMismatch
C3_Witness ==
    /\ IsCreate
    /\ DentroDeSlot /\ ~HaySlotExacto
    /\ resp.status = 409 /\ resp.error = "SlotMismatch"
    /\ reservas = reservas_antes

\* an enabled rule of tipo "disponible" that applies to the facility on the
\* weekday of the requested start and whose boundaries are the requested ones
ReglaAplicable(i) ==
    LET r == reglas_horario[i]
        d == date_of(req.reserva.inicio.t)
        propias == {j \in DOMAIN reglas_horario :
                       /\ reglas_horario[j].laboratorio_id = req.reserva.laboratorio_id
                       /\ reglas_horario[j].dia_semana = weekday(d)}
    IN  /\ r.dia_semana = weekday(d)
        /\ \/ r.laboratorio_id = req.reserva.laboratorio_id
           \/ r.laboratorio_id = NULL /\ propias = {}
        /\ r.es_habilitado /\ r.tipo_intervalo = "disponible"
        /\ combine(d, r.hora_inicio) = req.reserva.inicio.t
        /\ combine(d, r.hora_fin) = req.reserva.fin.t
ExcepcionCierra(d) ==
    \E i \in DOMAIN excepciones_horario :
        /\ excepciones_horario[i].fecha = d
        /\ excepciones_horario[i].laboratorio_id \in {req.reserva.laboratorio_id, NULL}
        /\ ~excepciones_horario[i].es_habilitado
        /\ excepciones_horario[i].hora_inicio = NoTime
HaySolape ==
    \E i \in DOMAIN reservas_antes :
        /\ reservas_antes[i].laboratorio_id = req.reserva.laboratorio_id
        /\ Activa(reservas_antes[i])
        /\ reservas_antes[i].inicio < FinUtc
        /\ reservas_antes[i].fin > InicioUtc

\* C4: a request by a permitted caller for an existing facility and a resolved
\* requester, with inicio < fin and inicio >= now, whose boundaries are those
\* of an applicable enabled rule of tipo "disponible", on a date without a
\* whole-day disabled exception and with no overlapping active booking,
\* succeeds and persists one new booking "activa" for it.
C4_Sufficient ==
    (/\ IsCreate
     /\ req.caller.rol \in {"admin", "docente"}
     /\ req.reserva.laboratorio_id \in laboratorios
     /\ req.user_details
     /\ InicioUtc < FinUtc
     /\ InicioUtc >= req.now
     /\ \E i \in DOMAIN reglas_horario : ReglaAplicable(i)
     /\ ~ExcepcionCierra(date_of(req.reserva.inicio.t))
     /\ ~HaySolape)
    => /\ resp.status = 201
       /\ Len(reservas) = Len(reservas_antes) + 1
       /\ reservas[Len(reservas)].estado = "activa"
       /\ reservas[Len(reservas)].laboratorio_id = req.reserva.laboratorio_id
       /\ reservas[Len(reservas)].usuario_id = req.reserva.usuario_id

\* the stored bookings that overlap the requested range
Solapadas ==
    {reservas_antes[i].id : i \in {j \in DOMAIN reservas_antes :
        /\ reservas_antes[j].laboratorio_id = req.reserva.laboratorio_id
        /\ Activa(reservas_antes[j])
        /\ reservas_antes[j].inicio < FinUtc
        /\ reservas_antes[j].fin > InicioUtc}}

\* C5: a request that passes the earlier checks while an active booking of the
\* facility overlaps the range is answered 409 Overlap naming such a booking
\* and the booking table is unchanged; Overlap is answered only then, so never
\* because of a cancelled booking, a booking of another facility or a booking
\* that only touches the range.
C5_Overlap ==
    IsCreate =>
        /\ (Solapadas # {} /\ resp.error \notin (ErroresPrevios \cup {"SlotMismatch"}))
           => /\ resp.status = 409 /\ resp.error = "Overlap"
              /\ resp.id \in Solapadas
              /\ reservas = reservas_antes
        /\ resp.error = "Overlap" => resp.id \in Solapadas

\* Overlap answered for a range that differs from the named booking's
C5_Witness ==
    /\ IsCreate /\ resp.status = 409 /\ resp.error = "Overlap"
    /\ reservas = reservas_antes
    /\ \E i \in DOMAIN reservas_antes :
          /\ reservas_antes[i].id = resp.id
          /\ <<reservas_antes[i].inicio, reservas_antes[i].fin>> # <<InicioUtc, FinUtc>>

\* C8: while a whole-day disabled exception applies to a facility on a date,
\* no create_reserva request whose start falls on that date succeeds.
C8_ClosedDay ==
    Creada => ~ExcepcionCierra(date_of(InicioUtc))

(* ------------- bookings while facilities are being deleted ------------ *)
ReglasOrden == {r \in ReglaRows({NULL}, {0}, {"disponible"}) : r.es_habilitado}

InitOrden ==
    /\ laboratorios = Labs
    /\ labs_cache_main = Labs
    /\ usuarios = Usuarios
    /\ reglas_horario \in Tables(ReglasOrden, MaxReglas)
    /\ excepciones_horario = <<>>
    /\ reservas = <<>>
    /\ tz_local \in TzOffsets
    /\ req = NoReq
    /\ resp = NoResp
    /\ reservas_antes = <<>>
    /\ inflight = <<>>
    /\ rol = RolInicial
    /\ recursos = RecursosIniciales
    /\ prestamos = <<>>

NextOrden == create_reserva \/ cancel_reserva \/ delete_laboratorio \/ request_done

SpecOrden == InitOrden /\ [][NextOrden]_vars

\* the preconditions of a create_reserva request, each by the name of its check
Falla(check) ==
    CASE check = "Forbidden"         -> req.caller.rol \notin {"admin", "docente"}
      [] check = "FacilityUnknown"   -> req.reserva.laboratorio_id
                                            \notin (labs_cache_main \cup laboratorios)
      [] check = "FacilityNotFound"  -> req.reserva.laboratorio_id \notin laboratorios
      [] check = "RequesterNotFound" -> ~req.user_details
      [] check = "InvalidRange"      -> ~(InicioUtc < FinUtc)
      [] check = "InPast"            -> ~(InicioUtc >= req.now)
      [] check = "SlotMismatch"      -> ~HaySlotExacto
      [] check = "Overlap"           -> Solapadas # {}
\* the error each check reports
ErrorDe(check) == IF check = "FacilityUnknown" THEN "FacilityNotFound" ELSE check
\* the error of the first failing check of a sequence of checks, "" if none fails
RECURSIVE PrimerFallo(_)
PrimerFallo(checks) ==
    IF checks = <<>> THEN ""
    ELSE IF Falla(Head(checks)) THEN ErrorDe(Head(checks))
    ELSE PrimerFallo(Tail(checks))
Incumplidas(checks) == {k \in DOMAIN checks : Falla(checks[k])}

OrdenSpec == <<"InvalidRange", "InPast", "FacilityNotFound", "RequesterNotFound",
               "SlotMismatch", "Overlap">>
OrdenCodigo == <<"Forbidden", "FacilityUnknown", "RequesterNotFound", "InvalidRange",
                 "InPast", "FacilityNotFound", "SlotMismatch", "Overlap">>

\* C6 (as stated): a request of a permitted caller is answered with the error
\* of the first failing precondition in the order InvalidRange, InPast,
\* FacilityNotFound, RequesterNotFound, SlotMismatch, Overlap.
C6_Original ==
    (IsCreate /\ ~Falla("Forbidden")) => resp.error = PrimerFallo(OrdenSpec)

\* C6 (amended): create_reserva reports the first failing check in the order
\* Forbidden (caller's role), FacilityNotFound (facility neither cached nor
\* stored), RequesterNotFound, InvalidRange, InPast, FacilityNotFound
\* (facility not stored), SlotMismatch, Overlap, and succeeds when none fails.
C6_Amended ==
    IsCreate =>
        /\ resp.error = PrimerFallo(OrdenCodigo)
        /\ resp.status = 201 <=> Incumplidas(OrdenCodigo) = {}

\* an unknown facility and a range with inicio >= fin: FacilityNotFound
C6_Witness ==
    /\ IsCreate
    /\ Falla("FacilityUnknown") /\ Falla("InvalidRange")
    /\ ~Falla("Forbidden")
    /\ resp.status = 404 /\ resp.error = "FacilityNotFound"

(* ---------------- create_reserva under concurrent requests ------------ *)
\* Several workers serve POST /reservas against one bookings table.  Nothing
\* in create_reserva locks the table or serialises the transactions, so the
\* validations with the overlap query of one request and the commit of its
\* row are two steps, between which the steps of other requests may fall.

\* the validations and the overlap query; a refused request changes nothing
create_reserva_begin ==
    /\ Len(inflight) < MaxInflight
    /\ \E caller \in CreateCallers, reserva \in ReservaCreates, now \in Nows :
       \E reglas_q \in Orderings(reglas_horario),
          excepciones_q \in Orderings(excepciones_horario) :
        /\ create_reserva_validaciones(caller, reserva, reserva.usuario_id \in usuarios, now,
                                       reglas_q, excepciones_q) = NoResp
        /\ overlapping(reservas, reserva.laboratorio_id, astimezone_utc(reserva.inicio),
                       astimezone_utc(reserva.fin)) = {}
        /\ inflight' = Append(inflight, reserva)
    /\ UNCHANGED <<laboratorios, labs_cache_main, usuarios, reglas_horario,
                   excepciones_horario, reservas, tz_local, req, resp, reservas_antes>>
    /\ UNCHANGED <<rol, recursos, prestamos>>

\* db.add(new_reserva); db.commit() of a request that passed its checks
create_reserva_commit ==
    /\ Len(reservas) < MaxReservas
    /\ \E k \in DOMAIN inflight, calendar \in {"event", "failed"} :
        /\ reservas' = insert_reserva(reservas, inflight[k], calendar)
        /\ inflight' = SubSeq(inflight, 1, k - 1) \o SubSeq(inflight, k + 1, Len(inflight))
    /\ UNCHANGED <<laboratorios, labs_cache_main, usuarios, reglas_horario,
                   excepciones_horario, tz_local, req, resp, reservas_antes>>
    /\ UNCHANGED <<rol, recursos, prestamos>>

NextConc == create_reserva_begin \/ create_reserva_commit

SpecConc == InitOrden /\ [][NextConc]_vars

\* C2: under concurrent create_reserva requests the overlap check and the
\* insert behave as one atomic unit: of the bookings of one facility that are
\* not cancelled, any two are disjoint (one ends no later than the other
\* starts).
C2_Atomic ==
    \A i, j \in DOMAIN reservas :
        (/\ i # j
         /\ reservas[i].laboratorio_id = reservas[j].laboratorio_id
         /\ reservas[i].estado # "cancelada" /\ reservas[j].estado # "cancelada")
        => \/ reservas[i].fin <= reservas[j].inicio
           \/ reservas[j].fin <= reservas[i].inicio

(* -------------------- schedule claims, continued ---------------------- *)
\* C11: the schedule is a function of the facility, the range and the stored
\* rule and exception sets: a call that reads the same rows in any other order
\* returns the mapping this call returned.
C11_Pure ==
    IsHorario =>
        \A rq \in Orderings(reglas_horario), eq \in Orderings(excepciones_horario) :
            get_horario_laboratorio(req.lab_id, req.fecha_inicio, req.fecha_fin,
                                    laboratorios, rq, eq).body = resp.body

(* ------------- bookings while users and facilities are deleted -------- *)
NextBorrado ==
    create_reserva \/ cancel_reserva \/ delete_laboratorio \/ delete_user \/ request_done

SpecBorrado == InitOrden /\ [][NextBorrado]_vars

\* C12: in every step, a booking that stays in the table keeps its status or
\* moves from "activa" to "cancelada", and a booking that enters the table is
\* "activa"; so a booking that is "cancelada" stays so.
C12_Lifecycle ==
    [][\A j \in DOMAIN reservas' :
          IF \E i \in DOMAIN reservas : reservas[i].id = reservas'[j].id
          THEN LET antes == reservas[fila(reservas, reservas'[j].id)].estado
               IN  \/ reservas'[j].estado = antes
                   \/ antes = "activa" /\ reservas'[j].estado = "cancelada"
          ELSE reservas'[j].estado = "activa"]_vars

\* a cancelled booking next to an active booking made afterwards of the same
\* facility and interval
C12_Witness ==
    \E i, j \in DOMAIN reservas :
        /\ reservas[i].id < reservas[j].id
        /\ reservas[i].estado = "cancelada" /\ reservas[j].estado = "activa"
        /\ reservas[i].laboratorio_id = reservas[j].laboratorio_id
        /\ reservas[i].inicio = reservas[j].inicio /\ reservas[i].fin = reservas[j].fin

\* C13: no step removes a booking from the table: the set of booking ids only
\* grows.
C13_NeverRemoved ==
    [][{reservas[i].id : i \in DOMAIN reservas}
          \subseteq {reservas'[j].id : j \in DOMAIN reservas'}]_vars

(* ------------------------ cancellation claims ------------------------- *)
IsCancel == req.op = "cancel_reserva"
ExisteReserva == \E i \in DOMAIN reservas_antes : reservas_antes[i].id = req.reserva_id
\* the booking the request names, before and after the request
ReservaAntes == reservas_antes[fila(reservas_antes, req.reserva_id)]
ReservaDespues == reservas[fila(reservas, req.reserva_id)]
Autorizado == req.caller.rol = "admin" \/ ReservaAntes.usuario_id = req.caller.id

\* C14: a cancel_reserva request for an existing booking by a caller who is
\* neither its requester nor an admin is answered 403 Forbidden, changes no
\* booking and makes no calendar call; a cancel_reserva request changes the
\* bookings only for the requester or an admin.
C14_Forbidden ==
    (IsCancel /\ ExisteReserva) =>
        /\ ~Autorizado => /\ resp.status = 403 /\ resp.error = "Forbidden"
                          /\ reservas = reservas_antes
                          /\ resp.calendar = "none"
        /\ reservas # reservas_antes => Autorizado

\* a caller who is neither the requester nor an admin refused on an active
\* booking that has a calendar event
C14_Witness ==
    /\ IsCancel /\ ExisteReserva /\ ~Autorizado
    /\ ReservaAntes.estado = "activa" /\ ReservaAntes.google_event_id # ""
    /\ resp.status = 403
    /\ ReservaDespues = ReservaAntes

\* C15: with requests handled one after the other, a cancel_reserva request
\* by the requester or an admin for a booking that is "cancelada" is answered
\* 409 AlreadyCancelled, changes no booking and makes no calendar call; a
\* cancel_reserva request succeeds only on a booking that was "activa" and
\* leaves it "cancelada", so at most one of the cancel requests for a booking
\* succeeds.
C15_AlreadyCancelled ==
    (IsCancel /\ ExisteReserva) =>
        /\ (Autorizado /\ ReservaAntes.estado = "cancelada")
           => /\ resp.status = 409 /\ resp.error = "AlreadyCancelled"
              /\ reservas = reservas_antes
              /\ resp.calendar = "none"
        /\ resp.status = 200
           => ReservaAntes.estado = "activa" /\ ReservaDespues.estado = "cancelada"

\* a second cancel by the requester of a booking whose calendar event
\* outlived the first cancel
C15_Witness ==
    /\ IsCancel /\ ExisteReserva
    /\ req.caller.rol # "admin" /\ Autorizado
    /\ ReservaAntes.estado = "cancelada" /\ ReservaAntes.google_event_id # ""
    /\ resp.status = 409 /\ resp.error = "AlreadyCancelled"

(* ------------------------- collaborator claims ------------------------ *)
\* the booking a successful create_reserva request added
ReservaNueva == reservas[Len(reservas)]

\* C16: a create_reserva request whose calendar call fails is answered 201 and
\* leaves the new booking in the table, "activa" and without calendar
\* reference, the other bookings unchanged; a cancel_reserva request whose
\* calendar call fails is answered 200 and leaves the booking "cancelada";
\* whenever a calendar call was made, the booking change is in the table.
C16_CalendarFailure ==
    /\ (IsCreate /\ resp.calendar # "none")
       => /\ Len(reservas) = Len(reservas_antes) + 1
          /\ reservas = Append(reservas_antes, ReservaNueva)
          /\ ReservaNueva.estado = "activa"
          /\ ReservaNueva.id = MaxId(reservas_antes) + 1
          /\ resp.calendar = "create_failed"
             => resp.status = 201 /\ ReservaNueva.google_event_id = ""
    /\ (IsCancel /\ resp.calendar # "none")
       => /\ ReservaAntes.estado = "activa" /\ ReservaDespues.estado = "cancelada"
          /\ resp.calendar = "delete_failed"
             => /\ resp.status = 200
                /\ ReservaDespues = [ReservaAntes EXCEPT !.estado = "cancelada"]

\* a cancel answered 200 although the event could not be deleted, beside an
\* active booking whose event could not be created
C16_Witness ==
    /\ IsCancel /\ resp.calendar = "delete_failed" /\ resp.status = 200
    /\ ReservaDespues.estado = "cancelada" /\ ReservaDespues.google_event_id # ""
    /\ \E i \in DOMAIN reservas :
          reservas[i].estado = "activa" /\ reservas[i].google_event_id = ""

\* C17: a create_reserva request whose requester the identity service does not
\* return (unknown id, or no answer for a known one) does not succeed, leaves
\* the bookings unchanged and makes no calendar call; when the caller's role
\* and the facility pass their checks it is answered 404 RequesterNotFound.
C17_RequesterUnresolved ==
    (IsCreate /\ ~req.user_details) =>
        /\ resp.status # 201
        /\ reservas = reservas_antes
        /\ resp.calendar = "none"
        /\ (~Falla("Forbidden") /\ ~Falla("FacilityUnknown"))
           => resp.status = 404 /\ resp.error = "RequesterNotFound"

\* the identity service fails for a stored user whose request would otherwise
\* have been accepted
C17_Witness ==
    /\ IsCreate /\ ~req.user_details
    /\ req.reserva.usuario_id \in usuarios
    /\ Incumplidas(OrdenCodigo) = {3}
    /\ resp.status = 404 /\ resp.error = "RequesterNotFound"
    /\ reservas = reservas_antes

\* C18: a delete_laboratorio request that deletes a facility (204) finds no
\* booking of that facility that is not cancelled.
C18_NoDeleteWithActive ==
    (req.op = "delete_laboratorio" /\ resp.status = 204) =>
        \A i \in DOMAIN reservas_antes :
            reservas_antes[i].laboratorio_id = req.lab_id
            => reservas_antes[i].estado = "cancelada"


\* C19: the schedule's keys are exactly the ISO dates of the days from
\* fecha_inicio to fecha_fin inclusive, every key holds a non-empty sequence of
\* slots, and the mapping is empty when fecha_inicio > fecha_fin.
C19_Keys ==
    IsHorario =>
        /\ DOMAIN resp.body = {isoformat(d) : d \in RangoPedido}
        /\ \A d \in RangoPedido : Len(resp.body[isoformat(d)]) >= 1
        /\ req.fecha_inicio > req.fecha_fin => resp.body = <<>>

\* a range of more than one day, answered with one entry per day
C19_Witness ==
    /\ IsHorario
    /\ req.fecha_inicio < req.fecha_fin
    /\ Cardinality(DOMAIN resp.body) = req.fecha_fin - req.fecha_inicio + 1
    /\ isoformat(req.fecha_fin) \in DOMAIN resp.body

\* the rules applicable to date d: the facility's own of that weekday if it
\* has any, else the general ones
ReglasAplicables(d) ==
    IF ReglasPropias(d) # {} THEN ReglasPropias(d) ELSE ReglasGenerales(d)
\* date d is answered with the single slot of a whole-day disabled exception
DiaCerrado(d) ==
    Decide(d) # <<>> /\ ~Decide(d)[1].es_habilitado /\ Decide(d)[1].hora_inicio = NoTime

\* C20: for every day of the range that is not closed by a whole-day disabled
\* exception and has an applicable rule, the day's slots are one per
\* applicable rule (a one-to-one match of slots and rules, each slot with the
\* rule's times on that date and the rule's tipo_intervalo, or "no_habilitado"
\* for a disabled rule), in ascending order of start time.
C20_SlotsPerRule ==
    IsHorario =>
        \A d \in RangoPedido :
            (~DiaCerrado(d) /\ ReglasAplicables(d) # {}) =>
                LET slots == resp.body[isoformat(d)]
                IN  /\ Len(slots) = Cardinality(ReglasAplicables(d))
                    /\ \E f \in [DOMAIN slots -> ReglasAplicables(d)] :
                          /\ \A j, k \in DOMAIN slots : j # k => f[j] # f[k]
                          /\ \A k \in DOMAIN slots :
                                SlotDeRegla(slots[k], reglas_horario[f[k]], d)
                    /\ \A j, k \in DOMAIN slots :
                          j < k => slots[j].inicio <= slots[k].inicio

\* a day with two applicable rules, one of them disabled, that the query
\* returned with the later one first
C20_Witness ==
    /\ IsHorario
    /\ \E d \in RangoPedido :
        /\ ~DiaCerrado(d)
        /\ Len(resp.body[isoformat(d)]) = 2
        /\ resp.body[isoformat(d)][1].inicio < resp.body[isoformat(d)][2].inicio
        /\ \E k \in 1..2 : resp.body[isoformat(d)][k].tipo = "no_habilitado"
        /\ \E i, j \in DOMAIN req.reglas_q :
              /\ i < j
              /\ req.reglas_q[i].dia_semana = weekday(d)
              /\ req.reglas_q[j].dia_semana = weekday(d)
              /\ req.reglas_q[i].laboratorio_id = req.reglas_q[j].laboratorio_id
              /\ req.reglas_q[i].hora_inicio > req.reglas_q[j].hora_inicio


\* C21: for every day of the range that is not closed by a whole-day disabled
\* exception and for whose weekday neither a rule of the facility nor a general
\* rule exists, the day's slots are exactly one full-day slot labelled
\* "no_habilitado"; the day therefore holds no slot labelled "disponible", the
\* only label create_reserva accepts.
C21_NoRules ==
    IsHorario =>
        \A d \in RangoPedido :
            (~DiaCerrado(d) /\ ReglasPropias(d) = {} /\ ReglasGenerales(d) = {}) =>
                /\ resp.body[isoformat(d)] = <<DiaCompleto(d, "no_habilitado")>>
                /\ \A k \in DOMAIN resp.body[isoformat(d)] :
                      resp.body[isoformat(d)][k].tipo # "disponible"

\* a day without rules for its weekday on which an exception that does not
\* close the day applies, while rules for another weekday exist
C21_Witness ==
    /\ IsHorario
    /\ reglas_horario # <<>>
    /\ \E d \in RangoPedido :
        /\ ReglasPropias(d) = {} /\ ReglasGenerales(d) = {}
        /\ Decide(d) # <<>> /\ ~DiaCerrado(d)
        /\ resp.body[isoformat(d)] = <<DiaCompleto(d, "no_habilitado")>>


\* C22: the slots returned for one day never overlap: of any two slots of a
\* day, one ends no later than the other starts.
C22_SlotsDisjoint ==
    IsHorario =>
        \A d \in RangoPedido :
            \A j, k \in DOMAIN resp.body[isoformat(d)] :
                j # k =>
                    \/ resp.body[isoformat(d)][j].fin <= resp.body[isoformat(d)][k].inicio
                    \/ resp.body[isoformat(d)][k].fin <= resp.body[isoformat(d)][j].inicio


\* the position in the query's result of the exception that decides date d
IndiceDecide(d) ==
    CHOOSE i \in DOMAIN req.excepciones_q :
        /\ req.excepciones_q[i] = Decide(d)[1]
        /\ \A j \in 1..(i - 1) : req.excepciones_q[j] # Decide(d)[1]
\* the query's result without the row at position i
SinFila(q, i) == SubSeq(q, 1, i - 1) \o SubSeq(q, i + 1, Len(q))
\* the slots of date d computed from the given exception rows
SlotsCon(d, excepciones_q) ==
    get_horario_laboratorio(req.lab_id, d, d, laboratorios, req.reglas_q,
                            excepciones_q).body[isoformat(d)]

\* C23 (as stated): for every day of the range whose deciding exception is not
\* a whole-day disabled one, the day's slots are those computed when the
\* deciding exception is removed from the stored exceptions.
C23_Original ==
    IsHorario =>
        \A d \in RangoPedido :
            (Decide(d) # <<>> /\ ~DiaCerrado(d)) =>
                resp.body[isoformat(d)] =
                    SlotsCon(d, SinFila(req.excepciones_q, IndiceDecide(d)))

\* C23 (amended): for every day of the range whose deciding exception is not
\* a whole-day disabled one, the day's slots are those derived from the weekly
\* rules alone, as computed when no exception is stored.
C23_Amended ==
    IsHorario =>
        \A d \in RangoPedido :
            (Decide(d) # <<>> /\ ~DiaCerrado(d)) =>
                resp.body[isoformat(d)] = SlotsCon(d, <<>>)

\* a day decided by a disabled exception that carries hours, answered with
\* the slot of an enabled rule
C23_Witness ==
    /\ IsHorario
    /\ \E d \in RangoPedido :
        /\ Decide(d) # <<>>
        /\ ~Decide(d)[1].es_habilitado /\ Decide(d)[1].hora_inicio # NoTime
        /\ ReglasAplicables(d) # {}
        /\ \E k \in DOMAIN resp.body[isoformat(d)] :
              resp.body[isoformat(d)][k].tipo = "disponible"


(* ------------- administration of rules and exceptions ----------------- *)
\* the fields a PUT body can set: ReglaHorarioUpdate and ExcepcionHorarioUpdate
\* are declared without fields, and undeclared fields of a body are ignored
ReglaHorarioUpdate == {}
ExcepcionHorarioUpdate == {}
\* model_dump(exclude_unset=True): the fields of the body the schema declares
model_dump(campos, body) == [k \in (DOMAIN body) \cap campos |-> body[k]]
\* for key, value in update_data.items(): setattr(row, key, value)
setattr_all(row, update_data) ==
    [k \in DOMAIN row |-> IF k \in DOMAIN update_data THEN update_data[k] ELSE row[k]]

\* (mutant) a rule accepted without comparing its hours
create_regla_horario_validaciones_sin_horas(regla) ==
    IF ~(0 <= regla.dia_semana /\ regla.dia_semana <= 6) THEN "DiaInvalido" ELSE ""

\* the checks of POST /admin/horarios/reglas; "" when the rule is accepted
create_regla_horario_validaciones(regla) ==
    IF ~(0 <= regla.dia_semana /\ regla.dia_semana <= 6) THEN "DiaInvalido"
    ELSE IF regla.hora_inicio >= regla.hora_fin THEN "HorasInvalidas"
    ELSE ""

\* the checks of PUT /admin/horarios/reglas/{regla_id} on the stored rule
update_regla_validaciones(db_regla, update_data) ==
    IF DOMAIN update_data = {} THEN "SinDatos"
    ELSE IF /\ {"hora_inicio", "hora_fin"} \cap DOMAIN update_data # {}
            /\ setattr_all(db_regla, update_data).hora_inicio
                   >= setattr_all(db_regla, update_data).hora_fin
         THEN "HorasInvalidas"
    ELSE ""

\* (mutant) an exception accepted with only one of its two hours
create_excepcion_horario_validaciones_sin_ambas(excepcion) ==
    IF /\ excepcion.hora_inicio # NoTime /\ excepcion.hora_fin # NoTime
       /\ excepcion.hora_inicio >= excepcion.hora_fin
    THEN "HorasInvalidas"
    ELSE ""

\* the checks of POST /admin/horarios/excepciones; a time object is always
\* true in a condition, so only an absent hour counts as missing
create_excepcion_horario_validaciones(excepcion) ==
    IF \/ excepcion.hora_inicio # NoTime /\ excepcion.hora_fin = NoTime
       \/ excepcion.hora_inicio = NoTime /\ excepcion.hora_fin # NoTime
    THEN "AmbasHoras"
    ELSE IF /\ excepcion.hora_inicio # NoTime /\ excepcion.hora_fin # NoTime
            /\ excepcion.hora_inicio >= excepcion.hora_fin
         THEN "HorasInvalidas"
    ELSE ""

\* the facility a row names does not exist and the database checks the
\* reference: the commit fails
fk_falla(row, fk_enforced) ==
    fk_enforced /\ row.laboratorio_id # NULL /\ row.laboratorio_id \notin laboratorios

\* bodies of POST /admin/horarios/reglas, accepted and not
ReglaCreates ==
    [laboratorio_id : {NULL, 3}, dia_semana : {-1, 0, 6, 7}, hora_inicio : Horas,
     hora_fin : Horas, es_habilitado : {TRUE}, tipo_intervalo : {"disponible"}]
\* bodies of PUT /admin/horarios/reglas/{regla_id}
ReglaUpdates ==
    {<<>>, [dia_semana |-> 7], [hora_inicio |-> TimeMax, hora_fin |-> TimeMin],
     [es_habilitado |-> FALSE]}
\* bodies of POST /admin/horarios/excepciones, accepted and not
ExcepcionCreates ==
    [laboratorio_id : {NULL}, fecha : {0}, hora_inicio : {NoTime, 0, 1},
     hora_fin : {NoTime, 0, 1}, es_habilitado : BOOLEAN, descripcion : {""}]
\* bodies of PUT /admin/horarios/excepciones/{excepcion_id}
ExcepcionUpdates ==
    {<<>>, [hora_inicio |-> NoTime], [hora_inicio |-> 1, hora_fin |-> 0],
     [es_habilitado |-> TRUE]}

InitAdmin ==
    /\ laboratorios = Labs
    /\ labs_cache_main = Labs
    /\ usuarios = Usuarios
    /\ reglas_horario = <<>>
    /\ excepciones_horario = <<>>
    /\ reservas = <<>>
    /\ tz_local = 0
    /\ req = NoReq
    /\ resp = NoResp
    /\ reservas_antes = <<>>
    /\ inflight = <<>>
    /\ rol = RolInicial
    /\ recursos = RecursosIniciales
    /\ prestamos = <<>>

\* POST /admin/horarios/reglas
create_regla_horario ==
    /\ req = NoReq
    /\ \E regla \in ReglaCreates, fk_enforced \in BOOLEAN :
        /\ req' = [op |-> "create_regla_horario", regla |-> regla]
        /\ IF create_regla_horario_validaciones(regla) # ""
           THEN /\ resp' = HTTPException(400, create_regla_horario_validaciones(regla))
                /\ UNCHANGED reglas_horario
           ELSE IF fk_falla(regla, fk_enforced)
           THEN /\ resp' = HTTPException(500, "Error")
                /\ UNCHANGED reglas_horario
           ELSE /\ Len(reglas_horario) < MaxReglas
                /\ reglas_horario' = Append(reglas_horario, regla)
                /\ resp' = Response(201, Len(reglas_horario) + 1, "none")
    /\ UNCHANGED <<laboratorios, labs_cache_main, usuarios, excepciones_horario,
                   reservas, tz_local, reservas_antes, inflight>>
    /\ UNCHANGED <<rol, recursos, prestamos>>

\* PUT /admin/horarios/reglas/{regla_id}; a rule is addressed by its position
update_regla ==
    /\ req = NoReq
    /\ \E regla_id \in 1..(MaxReglas + 1), regla_data \in ReglaUpdates :
        LET update_data == model_dump(ReglaHorarioUpdate, regla_data)
        IN  /\ req' = [op |-> "update_regla", regla_id |-> regla_id, body |-> regla_data]
            /\ IF regla_id \notin DOMAIN reglas_horario
               THEN /\ resp' = HTTPException(404, "NotFound")
                    /\ UNCHANGED reglas_horario
               ELSE IF update_regla_validaciones(reglas_horario[regla_id], update_data) # ""
               THEN /\ resp' = HTTPException(400,
                           update_regla_validaciones(reglas_horario[regla_id], update_data))
                    /\ UNCHANGED reglas_horario
               ELSE /\ reglas_horario' =
                           [reglas_horario EXCEPT ![regla_id] = setattr_all(@, update_data)]
                    /\ resp' = Response(200, regla_id, "none")
    /\ UNCHANGED <<laboratorios, labs_cache_main, usuarios, excepciones_horario,
                   reservas, tz_local, reservas_antes, inflight>>
    /\ UNCHANGED <<rol, recursos, prestamos>>

\* DELETE /admin/horarios/reglas/{regla_id}
delete_regla ==
    /\ req = NoReq
    /\ \E regla_id \in 1..(MaxReglas + 1) :
        /\ req' = [op |-> "delete_regla", regla_id |-> regla_id]
        /\ IF regla_id \notin DOMAIN reglas_horario
           THEN /\ resp' = HTTPException(404, "NotFound")
                /\ UNCHANGED reglas_horario
           ELSE /\ reglas_horario' = SinFila(reglas_horario, regla_id)
                /\ resp' = Response(204, regla_id, "none")
    /\ UNCHANGED <<laboratorios, labs_cache_main, usuarios, excepciones_horario,
                   reservas, tz_local, reservas_antes, inflight>>
    /\ UNCHANGED <<rol, recursos, prestamos>>

\* POST /admin/horarios/excepciones
create_excepcion_horario ==
    /\ req = NoReq
    /\ \E excepcion \in ExcepcionCreates, fk_enforced \in BOOLEAN :
        /\ req' = [op |-> "create_excepcion_horario", excepcion |-> excepcion]
        /\ IF create_excepcion_horario_validaciones(excepcion) # ""
           THEN /\ resp' = HTTPException(400, create_excepcion_horario_validaciones(excepcion))
                /\ UNCHANGED excepciones_horario
           ELSE IF fk_falla(excepcion, fk_enforced)
           THEN /\ resp' = HTTPException(500, "Error")
                /\ UNCHANGED excepciones_horario
           ELSE /\ Len(excepciones_horario) < MaxExcepciones
                /\ excepciones_horario' = Append(excepciones_horario, excepcion)
                /\ resp' = Response(201, Len(excepciones_horario) + 1, "none")
    /\ UNCHANGED <<laboratorios, labs_cache_main, usuarios, reglas_horario,
                   reservas, tz_local, reservas_antes, inflight>>
    /\ UNCHANGED <<rol, recursos, prestamos>>

\* PUT /admin/horarios/excepciones/{excepcion_id}: no check on the new values
update_excepcion ==
    /\ req = NoReq
    /\ \E excepcion_id \in 1..(MaxExcepciones + 1), excepcion_data \in ExcepcionUpdates :
        LET update_data == model_dump(ExcepcionHorarioUpdate, excepcion_data)
        IN  /\ req' = [op |-> "update_excepcion", excepcion_id |-> excepcion_id,
                       body |-> excepcion_data]
            /\ IF excepcion_id \notin DOMAIN excepciones_horario
               THEN /\ resp' = HTTPException(404, "NotFound")
                    /\ UNCHANGED excepciones_horario
               ELSE /\ excepciones_horario' =
                           [excepciones_horario EXCEPT ![excepcion_id] = setattr_all(@, update_data)]
                    /\ resp' = Response(200, excepcion_id, "none")
    /\ UNCHANGED <<laboratorios, labs_cache_main, usuarios, reglas_horario,
                   reservas, tz_local, reservas_antes, inflight>>
    /\ UNCHANGED <<rol, recursos, prestamos>>

\* DELETE /admin/horarios/excepciones/{excepcion_id}
delete_excepcion ==
    /\ req = NoReq
    /\ \E excepcion_id \in 1..(MaxExcepciones + 1) :
        /\ req' = [op |-> "delete_excepcion", excepcion_id |-> excepcion_id]
        /\ IF excepcion_id \notin DOMAIN excepciones_horario
           THEN /\ resp' = HTTPException(404, "NotFound")
                /\ UNCHANGED excepciones_horario
           ELSE /\ excepciones_horario' = SinFila(excepciones_horario, excepcion_id)
                /\ resp' = Response(204, excepcion_id, "none")
    /\ UNCHANGED <<laboratorios, labs_cache_main, usuarios, reglas_horario,
                   reservas, tz_local, reservas_antes, inflight>>
    /\ UNCHANGED <<rol, recursos, prestamos>>

NextAdmin ==
    \/ create_regla_horario \/ update_regla \/ delete_regla
    \/ create_excepcion_horario \/ update_excepcion \/ delete_excepcion
    \/ request_done

SpecAdmin == InitAdmin /\ [][NextAdmin]_vars

\* every stored rule has hora_inicio < hora_fin and dia_semana in 0..6
ReglasValidas(tabla) ==
    \A i \in DOMAIN tabla :
        /\ tabla[i].hora_inicio < tabla[i].hora_fin
        /\ tabla[i].dia_semana \in 0..6

\* C24: every step of create_regla_horario, update_regla and delete_regla
\* leaves a rule store in which every rule has hora_inicio < hora_fin and
\* dia_semana in 0..6, and a step answered with an error (status >= 400)
\* leaves the rule store as it was.
C24_ReglasValidas ==
    [][/\ ReglasValidas(reglas_horario')
       /\ resp'.status >= 400 => reglas_horario' = reglas_horario]_vars

\* an update of a stored rule with hora_inicio after hora_fin, rejected, after
\* the store had been filled and a rule deleted from it
C24_Witness ==
    /\ req.op = "update_regla"
    /\ req.regla_id \in DOMAIN reglas_horario
    /\ "hora_inicio" \in DOMAIN req.body
    /\ resp.status = 400
    /\ Len(reglas_horario) = MaxReglas
    /\ reglas_horario[1].dia_semana = 6


\* C25: every stored exception has hora_inicio and hora_fin either both
\* present, with hora_inicio < hora_fin, or both absent.
C25_ExcepcionesValidas ==
    \A i \in DOMAIN excepciones_horario :
        \/ /\ excepciones_horario[i].hora_inicio = NoTime
           /\ excepciones_horario[i].hora_fin = NoTime
        \/ /\ excepciones_horario[i].hora_inicio # NoTime
           /\ excepciones_horario[i].hora_fin # NoTime
           /\ excepciones_horario[i].hora_inicio < excepciones_horario[i].hora_fin

\* an update that names only hora_inicio, answered 200 on a store that holds
\* an exception with hours
C25_Witness ==
    /\ req.op = "update_excepcion"
    /\ DOMAIN req.body = {"hora_inicio"}
    /\ resp.status = 200
    /\ excepciones_horario[req.excepcion_id].hora_fin # NoTime


\* C26: a create_reserva request for a facility that is not in the
\* laboratorios table stores no booking, whether or not labs_cache_main still
\* holds the facility; unless an earlier check (role, requester, range, past)
\* rejects it, it is answered 404 FacilityNotFound.
C26_StaleCache ==
    (IsCreate /\ req.reserva.laboratorio_id \notin laboratorios) =>
        /\ resp.status # 201
        /\ reservas = reservas_antes
        /\ resp.error \notin {"Forbidden", "RequesterNotFound", "InvalidRange", "InPast"}
           => resp.status = 404 /\ resp.error = "FacilityNotFound"

\* a request for a facility deleted after startup, still cached, that passes
\* the role, requester, range and past checks and is answered 404
C26_Witness ==
    /\ IsCreate
    /\ req.reserva.laboratorio_id \in labs_cache_main \ laboratorios
    /\ req.caller.rol = "docente"
    /\ req.user_details
    /\ InicioUtc < FinUtc /\ InicioUtc >= req.now
    /\ resp.status = 404 /\ resp.error = "FacilityNotFound"
    /\ reservas = reservas_antes


(* ------------- create_reserva beside the user service ----------------- *)
\* create_reserva awaits the user service's answer for the requester and then
\* runs to its end; delete_user of the user service, another process, may fall
\* between the two.
MaxPendientes == 1

\* two general rules of Monday, no exception, the server's zone UTC
InitServicios ==
    /\ laboratorios = Labs
    /\ labs_cache_main = Labs
    /\ usuarios = Usuarios
    /\ reglas_horario =
          <<[laboratorio_id |-> NULL, dia_semana |-> 0, hora_inicio |-> 0, hora_fin |-> 1,
             es_habilitado |-> TRUE, tipo_intervalo |-> "disponible"],
            [laboratorio_id |-> NULL, dia_semana |-> 0, hora_inicio |-> 1, hora_fin |-> 2,
             es_habilitado |-> TRUE, tipo_intervalo |-> "disponible"]>>
    /\ excepciones_horario = <<>>
    /\ reservas = <<>>
    /\ tz_local = 0
    /\ req = NoReq
    /\ resp = NoResp
    /\ reservas_antes = <<>>
    /\ inflight = <<>>
    /\ rol = RolInicial
    /\ recursos = RecursosIniciales
    /\ prestamos = <<>>

\* request bodies with naive datetimes, for a stored and an unknown facility
ReservasServicios ==
    {r \in ReservaCreates : r.inicio.tzinfo = "none" /\ r.laboratorio_id \in {1, 3}}

\* the handler up to the answer of GET /usuarios/internal/{usuario_id}
create_reserva_lookup ==
    /\ Len(inflight) < MaxPendientes
    /\ \E caller \in CreateCallers, reserva \in ReservasServicios :
       \E identity_up \in {b \in BOOLEAN : b \/ reserva.usuario_id \in usuarios} :
        inflight' = Append(inflight,
                           [caller |-> caller, reserva |-> reserva,
                            user_details |-> identity_up /\ reserva.usuario_id \in usuarios])
    /\ UNCHANGED <<laboratorios, labs_cache_main, usuarios, reglas_horario,
                   excepciones_horario, reservas, tz_local, req, resp, reservas_antes>>
    /\ UNCHANGED <<rol, recursos, prestamos>>

\* the rest of the handler.  The commit of a row whose usuario_id names no row
\* of usuarios fails where the database checks the reference; where it does
\* not, the row is committed and db.refresh(new_reserva.usuario) then raises,
\* which the handler answers with 400 after a rollback of nothing.
create_reserva_finish ==
    /\ MaxId(reservas) < MaxReservas
    /\ \E k \in DOMAIN inflight, now \in Nows, fk_enforced \in BOOLEAN :
       \E reglas_q \in Orderings(reglas_horario),
          excepciones_q \in Orderings(excepciones_horario) :
        LET caller  == inflight[k].caller
            reserva == inflight[k].reserva
            error == create_reserva_validaciones(caller, reserva, inflight[k].user_details,
                                                 now, reglas_q, excepciones_q)
            conflictos == overlapping(reservas, reserva.laboratorio_id,
                                      astimezone_utc(reserva.inicio),
                                      astimezone_utc(reserva.fin))
        IN  /\ inflight' = SinFila(inflight, k)
            /\ req' = [op |-> "create_reserva", caller |-> caller, reserva |-> reserva,
                       now |-> now, user_details |-> inflight[k].user_details]
            /\ reservas_antes' = reservas
            /\ IF error # NoResp
               THEN resp' = error /\ UNCHANGED reservas
               ELSE IF conflictos # {}
               THEN /\ \E c \in conflictos : resp' = [HTTPException(409, "Overlap") EXCEPT !.id = c]
                    /\ UNCHANGED reservas
               ELSE IF fk_enforced /\ reserva.usuario_id \notin usuarios
               THEN /\ resp' = HTTPException(400, "Error al crear reserva local")
                    /\ UNCHANGED reservas
               ELSE \E calendar \in {"event", "failed"} :
                    /\ reservas' = insert_reserva(reservas, reserva, calendar)
                    /\ resp' = IF reserva.usuario_id \in usuarios
                               THEN Response(201, MaxId(reservas) + 1, "create_" \o calendar)
                               ELSE [HTTPException(400, "Error al crear reserva local")
                                        EXCEPT !.calendar = "create_" \o calendar]
    /\ UNCHANGED <<laboratorios, labs_cache_main, usuarios, reglas_horario,
                   excepciones_horario, tz_local>>
    /\ UNCHANGED <<rol, recursos, prestamos>>

NextServicios ==
    create_reserva_lookup \/ create_reserva_finish \/ delete_user \/ request_done

SpecServicios == InitServicios /\ [][NextServicios]_vars

\* C27: a create_reserva request answered with an error (status >= 400) leaves
\* the booking table as it was before the request.
C27_ErrorNoBooking ==
    (IsCreate /\ resp.status >= 400) => reservas = reservas_antes


(* ------------------- loans of the inventory service ------------------- *)
MaxPrestamos == 2
\* the values of nuevo_estado the tests send: the four allowed ones, the
\* initial one and an unknown one
Estados == {"pendiente", "aprobado", "rechazado", "entregado", "devuelto", "perdido"}

\* (mutant) the state machine without the check of the final states
update_prestamo_estado_validaciones_sin_final(current_status, nuevo_estado) ==
    IF nuevo_estado \notin {"aprobado", "rechazado", "entregado", "devuelto"}
    THEN HTTPException(400, "NotAllowed")
    ELSE IF current_status = "pendiente" /\ nuevo_estado \notin {"aprobado", "rechazado"}
    THEN HTTPException(409, "BadTransition")
    ELSE IF current_status = "aprobado" /\ nuevo_estado # "entregado"
    THEN HTTPException(409, "BadTransition")
    ELSE IF current_status = "entregado" /\ nuevo_estado # "devuelto"
    THEN HTTPException(409, "BadTransition")
    ELSE NoResp

\* allowed_states and the state machine of update_prestamo_estado: the error
\* raised, or NoResp when the transition is taken
update_prestamo_estado_validaciones(current_status, nuevo_estado) ==
    IF nuevo_estado \notin {"aprobado", "rechazado", "entregado", "devuelto"}
    THEN HTTPException(400, "NotAllowed")
    ELSE IF current_status = "pendiente" /\ nuevo_estado \notin {"aprobado", "rechazado"}
    THEN HTTPException(409, "BadTransition")
    ELSE IF current_status = "aprobado" /\ nuevo_estado # "entregado"
    THEN HTTPException(409, "BadTransition")
    ELSE IF current_status = "entregado" /\ nuevo_estado # "devuelto"
    THEN HTTPException(409, "BadTransition")
    ELSE IF current_status \in {"devuelto", "rechazado"}
    THEN HTTPException(409, "Final")
    ELSE NoResp

\* recurso.estado after a transition taken from current_status
recurso_estado(current_status, estado) ==
    IF current_status = "aprobado" THEN "prestado"
    ELSE IF current_status = "entregado" THEN "disponible"
    ELSE estado

InitPrestamos ==
    /\ laboratorios = Labs
    /\ labs_cache_main = Labs
    /\ usuarios = Usuarios
    /\ reglas_horario = <<>>
    /\ excepciones_horario = <<>>
    /\ reservas = <<>>
    /\ tz_local = 0
    /\ req = NoReq
    /\ resp = NoResp
    /\ reservas_antes = <<>>
    /\ inflight = <<>>
    /\ rol = RolInicial
    /\ recursos = RecursosIniciales
    /\ prestamos = <<>>

\* POST /prestamos
create_prestamo ==
    /\ req = NoReq
    /\ \E user \in Callers, recurso_id \in Recursos \cup {3}, usuario_id \in UsuarioIds :
       \E identity_up \in {b \in BOOLEAN : b \/ usuario_id \in usuarios} :
        /\ req' = [op |-> "create_prestamo", caller |-> user, recurso_id |-> recurso_id,
                   usuario_id |-> usuario_id]
        /\ IF recurso_id \notin DOMAIN recursos
           THEN resp' = HTTPException(404, "ResourceNotFound") /\ UNCHANGED prestamos
           ELSE IF usuario_id # user.id /\ user.rol # "admin"
           THEN resp' = HTTPException(403, "Forbidden") /\ UNCHANGED prestamos
           ELSE IF ~(identity_up /\ usuario_id \in usuarios)
           THEN resp' = HTTPException(404, "RequesterNotFound") /\ UNCHANGED prestamos
           ELSE /\ Len(prestamos) < MaxPrestamos
                /\ prestamos' = Append(prestamos,
                                       [id |-> Len(prestamos) + 1, recurso_id |-> recurso_id,
                                        usuario_id |-> usuario_id, estado |-> "pendiente"])
                /\ resp' = Response(201, Len(prestamos) + 1, "none")
    /\ UNCHANGED <<laboratorios, labs_cache_main, usuarios, reglas_horario,
                   excepciones_horario, reservas, tz_local, reservas_antes, inflight,
                   rol, recursos>>

\* PUT /admin/prestamos/{prestamo_id}/estado
update_prestamo_estado ==
    /\ req = NoReq
    /\ \E prestamo_id \in 1..(MaxPrestamos + 1), nuevo_estado \in Estados :
        /\ req' = [op |-> "update_prestamo_estado", prestamo_id |-> prestamo_id,
                   nuevo_estado |-> nuevo_estado]
        /\ IF prestamo_id \notin DOMAIN prestamos
           THEN resp' = HTTPException(404, "NotFound") /\ UNCHANGED <<prestamos, recursos>>
           ELSE LET prestamo == prestamos[prestamo_id]
                    error == update_prestamo_estado_validaciones(prestamo.estado, nuevo_estado)
                IN  IF error # NoResp
                    THEN resp' = error /\ UNCHANGED <<prestamos, recursos>>
                    ELSE /\ recursos' = [recursos EXCEPT ![prestamo.recurso_id] =
                                            recurso_estado(prestamo.estado, @)]
                         /\ prestamos' = [prestamos EXCEPT ![prestamo_id].estado = nuevo_estado]
                         /\ resp' = Response(200, prestamo_id, "none")
    /\ UNCHANGED <<laboratorios, labs_cache_main, usuarios, reglas_horario,
                   excepciones_horario, reservas, tz_local, reservas_antes, inflight, rol>>

NextPrestamos == create_prestamo \/ update_prestamo_estado \/ request_done

SpecPrestamos == InitPrestamos /\ [][NextPrestamos]_vars

\* the transitions of a loan's status
Transiciones ==
    {<<"pendiente", "aprobado">>, <<"pendiente", "rechazado">>,
     <<"aprobado", "entregado">>, <<"entregado", "devuelto">>}

\* C28: in every step a loan that enters the table is "pendiente" and a loan
\* in the table keeps its status or moves along pendiente->aprobado,
\* pendiente->rechazado, aprobado->entregado or entregado->devuelto (so
\* "devuelto" and "rechazado" are final); an update_prestamo_estado request
\* for any other transition of a stored loan is answered 400 or 409 and leaves
\* the loans and the resources as they were.
C28_LoanLifecycle ==
    [][/\ \A i \in DOMAIN prestamos' :
            IF i \in DOMAIN prestamos
            THEN \/ prestamos'[i].estado = prestamos[i].estado
                 \/ <<prestamos[i].estado, prestamos'[i].estado>> \in Transiciones
            ELSE prestamos'[i].estado = "pendiente"
       /\ (/\ req'.op = "update_prestamo_estado"
           /\ req = NoReq
           /\ req'.prestamo_id \in DOMAIN prestamos
           /\ <<prestamos[req'.prestamo_id].estado, req'.nuevo_estado>> \notin Transiciones)
          => /\ resp'.status \in {400, 409}
             /\ prestamos' = prestamos
             /\ recursos' = recursos]_vars

\* a request to reopen a returned loan, refused
C28_Witness ==
    /\ req.op = "update_prestamo_estado"
    /\ req.prestamo_id \in DOMAIN prestamos
    /\ prestamos[req.prestamo_id].estado = "devuelto"
    /\ req.nuevo_estado = "aprobado"
    /\ resp.status = 409

\* C29: a resource with a loan in status "entregado" has status "prestado".
C29_DeliveredIsLent ==
    \A i \in DOMAIN prestamos :
        prestamos[i].estado = "entregado" => recursos[prestamos[i].recurso_id] = "prestado"


(* ------------------ user administration of the user service ----------- *)
\* Python's None, the value of a field sent as JSON null
None == "None"
\* the fields UsuarioAdminUpdate declares
UsuarioAdminUpdate == {"nombre", "user", "correo", "rol"}
\* bodies of PUT /usuarios/{user_id}: fields left out are unset
UsuarioUpdates ==
    {<<>>, [nombre |-> "Ana"], [rol |-> "admin"], [rol |-> "docente"], [rol |-> ""],
     [rol |-> None], [nombre |-> "Ana", rol |-> "estudiante"]}
\* user_update.rol: the field's value, None when the body leaves it out
rol_de(user_update) == IF "rol" \in DOMAIN user_update THEN user_update["rol"] ELSE None
\* the truth value of a string or None in a condition
truthy(v) == v # None /\ v # ""

InitUsuarios ==
    /\ laboratorios = Labs
    /\ labs_cache_main = Labs
    /\ usuarios = Usuarios
    /\ reglas_horario = <<>>
    /\ excepciones_horario = <<>>
    /\ reservas = <<>>
    /\ tz_local = 0
    /\ req = NoReq
    /\ resp = NoResp
    /\ reservas_antes = <<>>
    /\ inflight = <<>>
    /\ rol = RolInicial
    /\ recursos = RecursosIniciales
    /\ prestamos = <<>>

\* PUT /usuarios/{user_id}, called with an admin's token whose user still
\* exists.  Columns nombre and rol are NOT NULL: a commit that sets one of
\* them to None fails and is rolled back.
update_user_by_admin ==
    /\ req = NoReq
    /\ \E user \in {c \in Callers : c.rol = "admin" /\ c.id \in usuarios},
          user_id \in Usuarios \cup UsuarioIds, user_update \in UsuarioUpdates :
        LET update_data == model_dump(UsuarioAdminUpdate, user_update)
        IN  /\ req' = [op |-> "update_user_by_admin", caller |-> user, user_id |-> user_id,
                       body |-> user_update]
            /\ IF user_id \notin usuarios
               THEN resp' = HTTPException(404, "NotFound") /\ UNCHANGED rol
               ELSE IF /\ user_id = user.id
                       /\ truthy(rol_de(user_update))
                       /\ rol_de(user_update) # "admin"
               THEN resp' = HTTPException(403, "Forbidden") /\ UNCHANGED rol
               ELSE IF DOMAIN update_data = {}
               THEN resp' = HTTPException(400, "NoData") /\ UNCHANGED rol
               ELSE IF \E k \in DOMAIN update_data : update_data[k] = None
               THEN resp' = HTTPException(500, "Error") /\ UNCHANGED rol
               ELSE /\ rol' = IF "rol" \in DOMAIN update_data
                              THEN [rol EXCEPT ![user_id] = update_data["rol"]]
                              ELSE rol
                    /\ resp' = Response(200, user_id, "none")
    /\ UNCHANGED <<laboratorios, labs_cache_main, usuarios, reglas_horario,
                   excepciones_horario, reservas, tz_local, reservas_antes, inflight,
                   recursos, prestamos>>

NextUsuarios == update_user_by_admin \/ delete_user \/ request_done

SpecUsuarios == InitUsuarios /\ [][NextUsuarios]_vars

\* C30: an update_user_by_admin request of an admin for their own id leaves
\* the admin's stored role "admin", whatever the body; a delete_user request
\* of an admin for their own id is answered 403 and removes no user.
C30_KeepsAdmin ==
    [][/\ (/\ req = NoReq /\ req'.op = "update_user_by_admin"
           /\ req'.user_id = req'.caller.id
           /\ rol[req'.caller.id] = "admin")
          => rol'[req'.caller.id] = "admin"
       /\ (/\ req = NoReq /\ req'.op = "delete_user"
           /\ req'.user_id = req'.caller.id)
          => resp'.status = 403 /\ usuarios' = usuarios]_vars

=============================================================================
